---- MODULE Spec2Model ----
(***************************************************************************)
(* Model of the AI Code Reviewer & Mentor: the analysis pipeline of the    *)
(* Python agent (detectors, registry, model analyzer, scorer,              *)
(* orchestrator) and the Node backend route that calls it.                 *)
(*                                                                         *)
(* Scores are kept in half-points (200 = 100 points): the category         *)
(* weights 0.5 and 1.5 make a deduction a multiple of one half.            *)
(***************************************************************************)
EXTENDS Integers, Sequences, FiniteSets, TLC

\* ------------------------------------------------------------------------
\* Bounds of the model
\* ------------------------------------------------------------------------
MaxIssues == 5

MaxReorder == 5

MaxAdj == 20

\* ------------------------------------------------------------------------
\* Data model
\* ------------------------------------------------------------------------
Severity == {"error", "warning", "info"}

Category == {"bug", "performance", "security", "clean-code", "anti-pattern"}

Dimensions == {"correctness", "readability", "maintainability", "performance", "security"}

DimensionOrder == <<"correctness", "readability", "maintainability", "performance", "security">>

FocusArea == {"bugs", "performance", "security", "clean-code", "all"}

\* The model adjustment: absent, or one additive delta (in points) per dimension.
Adjustment(deltas) == [present |-> TRUE, delta |-> deltas]

Absent == [present |-> FALSE, delta |-> [d \in Dimensions |-> 0]]

\* An issue; message stands for message, explanation and suggestion.
Issue(line, sev, cat, msg) == [line |-> line, severity |-> sev, category |-> cat, message |-> msg]

ScorerIssues == {Issue(0, s, c, "input") : s \in Severity, c \in Category}

\* an error of every category, and the lightest bug issue
ReorderIssues == {Issue(0, "error", c, "input") : c \in Category} \cup {Issue(0, "info", "bug", "input")}

\* ------------------------------------------------------------------------
\* Scorer
\* ------------------------------------------------------------------------
ErrorPoints == 15

WarningPoints == 8

InfoPoints == 3

SeverityPoints(sev) ==
    CASE sev = "error" -> ErrorPoints
      [] sev = "warning" -> WarningPoints
      [] sev = "info" -> InfoPoints

\* a weight table in which a bug issue also counts against performance
CategoryWeight2BugOnPerformance(cat, dim) ==
    CASE cat = "bug" /\ dim = "correctness" -> 3
      [] cat = "bug" /\ dim = "security" -> 1
      [] cat = "bug" /\ dim = "performance" -> 1
      [] cat = "security" /\ dim = "security" -> 4
      [] cat = "security" /\ dim = "correctness" -> 1
      [] cat = "performance" /\ dim = "performance" -> 3
      [] cat = "clean-code" /\ dim = "readability" -> 2
      [] cat = "clean-code" /\ dim = "maintainability" -> 2
      [] cat = "anti-pattern" /\ dim = "maintainability" -> 3
      [] cat = "anti-pattern" /\ dim = "readability" -> 1
      [] OTHER -> 0

\* Twice the category x dimension weight (1.5 -> 3, 0.5 -> 1, 2.0 -> 4, 1.0 -> 2).
CategoryWeight2(cat, dim) ==
    CASE cat = "bug" /\ dim = "correctness" -> 3
      [] cat = "bug" /\ dim = "security" -> 1
      [] cat = "security" /\ dim = "security" -> 4
      [] cat = "security" /\ dim = "correctness" -> 1
      [] cat = "performance" /\ dim = "performance" -> 3
      [] cat = "clean-code" /\ dim = "readability" -> 2
      [] cat = "clean-code" /\ dim = "maintainability" -> 2
      [] cat = "anti-pattern" /\ dim = "maintainability" -> 3
      [] cat = "anti-pattern" /\ dim = "readability" -> 1
      [] OTHER -> 0

FullScore2 == 200

InitialDimensions == [d \in Dimensions |-> FullScore2]

Deduction2(issue, dim) == SeverityPoints(issue.severity) * CategoryWeight2(issue.category, dim)

ApplyIssue(dims, issue) == [d \in Dimensions |-> dims[d] - Deduction2(issue, d)]

\* a fold that stops deducting once a dimension has bottomed out
RECURSIVE ApplyDeductionsEarlyExit(_, _)
ApplyDeductionsEarlyExit(dims, issues) ==
    IF issues = <<>> \/ (\E d \in Dimensions : dims[d] <= 0) THEN dims
    ELSE ApplyDeductionsEarlyExit(ApplyIssue(dims, Head(issues)), Tail(issues))

RECURSIVE ApplyDeductions(_, _)
ApplyDeductions(dims, issues) ==
    IF issues = <<>> THEN dims
    ELSE ApplyDeductions(ApplyIssue(dims, Head(issues)), Tail(issues))

Clamp2(v) == IF v < 0 THEN 0 ELSE IF v > FullScore2 THEN FullScore2 ELSE v

ClampAll(dims) == [d \in Dimensions |-> Clamp2(dims[d])]

\* the adjustment added without the second clamp
ApplyAdjustmentUnclamped(dims, adj) ==
    IF ~adj.present THEN dims
    ELSE [d \in Dimensions |-> dims[d] + 2 * adj.delta[d]]

ApplyAdjustment(dims, adj) ==
    IF ~adj.present THEN dims
    ELSE ClampAll([d \in Dimensions |-> dims[d] + 2 * adj.delta[d]])

RECURSIVE SumDims(_, _)
SumDims(dims, order) ==
    IF order = <<>> THEN 0 ELSE dims[Head(order)] + SumDims(dims, Tail(order))

\* the mean truncated instead of rounded
TruncatedMean(dims) == SumDims(dims, DimensionOrder) \div 10

\* Mean of five half-point values, in points, rounded to the nearest integer.
RoundedMean(dims) == (SumDims(dims, DimensionOrder) + 5) \div 10

score(issues, modelAdjustment) ==
    LET deducted == ApplyDeductions(InitialDimensions, issues)
        clamped == ClampAll(deducted)
        final == ApplyAdjustment(clamped, modelAdjustment)
    IN [dims |-> final, overall |-> RoundedMean(final)]

UniformAdjustment(a) == Adjustment([d \in Dimensions |-> a])

MixedAdjustment(a) ==
    Adjustment([d \in Dimensions |-> IF d = "performance" THEN a ELSE IF d = "security" THEN 0 - a ELSE 0])

Adjustments == {UniformAdjustment(MaxAdj), UniformAdjustment(0 - MaxAdj), MixedAdjustment(MaxAdj)}

\* ------------------------------------------------------------------------
\* Detectors: each implements a fixed set of pattern rules
\* ------------------------------------------------------------------------
Detectors == {"Bug", "AntiPattern", "Security", "Performance", "CleanCode"}

RegistryOrder == <<"Bug", "AntiPattern", "Security", "Performance", "CleanCode">>

\* rule -> detector that implements it, severity and category of its issues
Rules ==
    [ nullableAccess |-> [detector |-> "Bug", severity |-> "error", category |-> "bug"],
      looseEquality |-> [detector |-> "Bug", severity |-> "warning", category |-> "bug"],
      deepNesting |-> [detector |-> "AntiPattern", severity |-> "warning", category |-> "anti-pattern"],
      longFunction |-> [detector |-> "AntiPattern", severity |-> "warning", category |-> "anti-pattern"],
      magicNumber |-> [detector |-> "AntiPattern", severity |-> "info", category |-> "anti-pattern"],
      sqlConcat |-> [detector |-> "Security", severity |-> "error", category |-> "security"],
      hardcodedSecret |-> [detector |-> "Security", severity |-> "error", category |-> "security"],
      queryInLoop |-> [detector |-> "Performance", severity |-> "warning", category |-> "performance"],
      longLine |-> [detector |-> "CleanCode", severity |-> "info", category |-> "clean-code"],
      oversizedFunction |-> [detector |-> "CleanCode", severity |-> "warning", category |-> "clean-code"] ]

Match(rule, line) == [rule |-> rule, line |-> line]

\* A submitted code text, as the constructs the pattern rules match in it
\* (in text order) with the first line of each construct.
Snippets == {"nullCheck", "nestedFunction", "clean", "queryBuilder"}

Matches(code) ==
    CASE code = "nullCheck" -> <<Match("looseEquality", 1), Match("nullableAccess", 1)>>
      [] code = "nestedFunction" ->
            <<Match("longFunction", 1), Match("oversizedFunction", 1), Match("deepNesting", 7)>>
      [] code = "clean" -> <<>>
      [] code = "queryBuilder" ->
            <<Match("hardcodedSecret", 1), Match("queryInLoop", 3), Match("sqlConcat", 4),
              Match("magicNumber", 4), Match("magicNumber", 4), Match("longLine", 4),
              Match("looseEquality", 6)>>

IssueOf(m) == Issue(m.line, Rules[m.rule].severity, Rules[m.rule].category, m.rule)

RECURSIVE MapIssues(_)
MapIssues(ms) == IF ms = <<>> THEN <<>> ELSE <<IssueOf(Head(ms))>> \o MapIssues(Tail(ms))

DetectorRule(det, m) == Rules[m.rule].detector = det

detect(det, code) ==
    LET IsMine(m) == DetectorRule(det, m)
    IN MapIssues(SelectSeq(Matches(code), IsMine))

\* ------------------------------------------------------------------------
\* Detector Registry
\* ------------------------------------------------------------------------
\* focus area that activates a detector
DetectorFocus(det) ==
    CASE det = "Bug" -> "bugs"
      [] det = "AntiPattern" -> "clean-code"
      [] det = "Security" -> "security"
      [] det = "Performance" -> "performance"
      [] det = "CleanCode" -> "clean-code"

\* category of the issues a detector reports
DetectorCategory(det) ==
    CASE det = "Bug" -> "bug"
      [] det = "AntiPattern" -> "anti-pattern"
      [] det = "Security" -> "security"
      [] det = "Performance" -> "performance"
      [] det = "CleanCode" -> "clean-code"

\* a registry that runs every detector whatever the focus areas
SelectedAlways(det, focusAreas) == TRUE

Selected(det, focusAreas) == "all" \in focusAreas \/ DetectorFocus(det) \in focusAreas

RECURSIVE CollectIssues(_, _)
CollectIssues(order, out) ==
    IF order = <<>> THEN <<>> ELSE out[Head(order)] \o CollectIssues(Tail(order), out)

\* ------------------------------------------------------------------------
\* Model Analyzer: validation of the provider's raw reply
\* ------------------------------------------------------------------------
Field(type, value) == [type |-> type, value |-> value]

RawIssue(line, sev, cat, msg) == Issue(line, sev, cat, msg)

RawReply(issues, improved, narrative, questions, adj) ==
    [issues |-> issues, improvedCode |-> improved, mentorExplanation |-> narrative,
     followUpQuestions |-> questions, adjustment |-> adj]

GoodIssues == <<RawIssue(1, "warning", "bug", "looseEquality"), RawIssue(0, "info", "clean-code", "naming")>>

RawReplies ==
    { RawReply(Field("list", GoodIssues), Field("string", "improved"), Field("string", "narrative"),
               Field("list", <<"q1", "q2">>), UniformAdjustment(0 - MaxAdj)),
      RawReply(Field("list", <<>>), Field("string", "improved"), Field("string", "narrative"),
               Field("list", <<"q1">>), Absent),
      RawReply(Field("list", GoodIssues), Field("string", "improved"), Field("string", "narrative"),
               Field("list", <<"q1">>), MixedAdjustment(MaxAdj)),
      RawReply(Field("list", <<RawIssue(2, "critical", "bug", "crash")>>), Field("string", "improved"),
               Field("string", "narrative"), Field("list", <<"q1">>), Absent),
      RawReply(Field("list", <<RawIssue(2, "error", "style", "format")>>), Field("string", "improved"),
               Field("string", "narrative"), Field("list", <<"q1">>), UniformAdjustment(MaxAdj)),
      RawReply(Field("list", GoodIssues), Field("missing", ""), Field("string", "narrative"),
               Field("list", <<"q1">>), UniformAdjustment(MaxAdj)),
      RawReply(Field("list", GoodIssues), Field("string", "improved"), Field("string", "narrative"),
               Field("string", <<"q1">>), Absent),
      RawReply(Field("missing", <<>>), Field("string", "improved"), Field("number", "narrative"),
               Field("list", <<"q1">>), Absent) }

ValidIssue(i) == i.line >= 0 /\ i.severity \in Severity /\ i.category \in Category

\* a validation that lets a reply without improvedCode through
ValidReplyLenient(raw) ==
    /\ raw.issues.type = "list"
    /\ \A k \in 1..Len(raw.issues.value) : ValidIssue(raw.issues.value[k])
    /\ raw.mentorExplanation.type = "string"
    /\ raw.followUpQuestions.type = "list"

ValidReply(raw) ==
    /\ raw.issues.type = "list"
    /\ \A k \in 1..Len(raw.issues.value) : ValidIssue(raw.issues.value[k])
    /\ raw.improvedCode.type = "string"
    /\ raw.mentorExplanation.type = "string"
    /\ raw.followUpQuestions.type = "list"

ProviderFailures == {"transport", "timeout", "authentication"}

NoReply == RawReply(Field("missing", <<>>), Field("missing", ""), Field("missing", ""),
                    Field("missing", <<>>), Absent)

\* analyze(...) -> ModelReply | Failure
ModelReply(raw) == [kind |-> "reply", failure |-> "", raw |-> raw]

Failure(why, raw) == [kind |-> "failure", failure |-> why, raw |-> raw]

Unresolved == [kind |-> "pending", failure |-> "", raw |-> NoReply]

parseReply(raw) == IF ValidReply(raw) THEN ModelReply(raw) ELSE Failure("invalid-reply", raw)

\* ------------------------------------------------------------------------
\* Orchestrator: merge, score, assemble
\* ------------------------------------------------------------------------
DegradedExplanation == "deep analysis unavailable"

modelIssues(outcome) == IF outcome.kind = "reply" THEN outcome.raw.issues.value ELSE <<>>

\* the adjustment of the raw reply used even when the reply was rejected
modelAdjustmentOfRaw(outcome) == outcome.raw.adjustment

modelAdjustmentOf(outcome) == IF outcome.kind = "reply" THEN outcome.raw.adjustment ELSE Absent

\* a merge that drops a model issue a detector already reported
mergeIssuesDeduplicated(detIssues, outcome) ==
    LET Fresh(i) == \A k \in 1..Len(detIssues) : detIssues[k] # i
    IN detIssues \o SelectSeq(modelIssues(outcome), Fresh)

mergeIssues(detIssues, outcome) == detIssues \o modelIssues(outcome)

assemble(detIssues, outcome) ==
    LET issues == mergeIssues(detIssues, outcome)
        card == score(issues, modelAdjustmentOf(outcome))
    IN IF outcome.kind = "reply"
       THEN [score |-> card, issues |-> issues,
             improvedCode |-> outcome.raw.improvedCode.value,
             mentorExplanation |-> outcome.raw.mentorExplanation.value,
             followUpQuestions |-> outcome.raw.followUpQuestions.value]
       ELSE [score |-> card, issues |-> issues,
             improvedCode |-> "",
             mentorExplanation |-> DegradedExplanation,
             followUpQuestions |-> <<>>]

\* ------------------------------------------------------------------------
\* Backend: analyzeCode (aiService) and the global error handler
\* ------------------------------------------------------------------------
\* how the axios call to the agent can fail
CallFailures == {"ECONNREFUSED", "timeout", "errorBody", "status500", "other"}

AgentErrorText == "AI agent not initialized. Please set GROQ_API_KEY."

\* the Error thrown by the catch block of analyzeCode
analyzeCodeError(failure) ==
    CASE failure = "ECONNREFUSED" ->
            "AI agent service unavailable. Please ensure the Python agent is running."
      [] failure = "errorBody" -> AgentErrorText
      [] failure = "status500" -> "AI agent encountered an internal error"
      [] OTHER -> "Failed to analyze code"

\* errorHandler: a plain Error has no statusCode and no special name
errorHandler(message) == [status |-> 500, body |-> [error |-> message]]

NoResponse == [status |-> 0, body |-> [error |-> ""]]

\* a response that leaves the spread of the review result out
analyzeResponseWithoutResult(review, reviewResult) ==
    [status |-> 200, body |-> [id |-> review.id, createdAt |-> review.created_at]]

\* res.json({ id: review.id, ...reviewResult, createdAt: review.created_at })
analyzeResponse(review, reviewResult) ==
    [status |-> 200,
     body |-> [id |-> review.id, createdAt |-> review.created_at,
               score |-> reviewResult.score, issues |-> reviewResult.issues,
               improvedCode |-> reviewResult.improvedCode,
               mentorExplanation |-> reviewResult.mentorExplanation,
               followUpQuestions |-> reviewResult.followUpQuestions]]

\* Review.create: one row, JSON text columns kept as the values they encode
ReviewRow(id, userId, req, reviewResult, now) ==
    [id |-> id, user_id |-> userId, code |-> req.code, focus_areas |-> req.focusAreas,
     review_result |-> reviewResult, created_at |-> now]

\* ------------------------------------------------------------------------
\* Backend: tokens and the authenticate middleware
\* ------------------------------------------------------------------------
\* user ids of the users table
ApiUsers == {"u1", "u2"}

\* the id of a user whose row was deleted
DeletedUser == "u0"

Undefined == "undefined"

\* process.env with both secrets set, and with none set
EnvSet == [JWT_SECRET |-> "env-secret", JWT_REFRESH_SECRET |-> "env-refresh-secret"]

EnvUnset == [JWT_SECRET |-> Undefined, JWT_REFRESH_SECRET |-> Undefined]

\* config.jwtSecret: process.env.JWT_SECRET || 'your-secret-key-change-in-production'
jwtSecret(e) ==
    IF e.JWT_SECRET = Undefined THEN "your-secret-key-change-in-production" ELSE e.JWT_SECRET

\* config.jwtRefreshSecret
jwtRefreshSecret(e) ==
    IF e.JWT_REFRESH_SECRET = Undefined THEN "your-refresh-secret-key-change-in-production"
    ELSE e.JWT_REFRESH_SECRET

\* a JWT: its payload, the secret that signed it, and whether its exp has
\* passed when it is presented
Token(userId, type, key, expired) ==
    [userId |-> userId, type |-> type, key |-> key, expired |-> expired]

NoToken == Token("", "none", "none", FALSE)

\* jwt.sign({ userId }, config.jwtSecret, { expiresIn })
generateAccessToken(userId, e) == Token(userId, "access", jwtSecret(e), FALSE)

\* jwt.sign({ userId, type: 'refresh' }, config.jwtRefreshSecret, { expiresIn })
generateRefreshToken(userId, e) == Token(userId, "refresh", jwtRefreshSecret(e), FALSE)

\* a verification that does not look at the signature
verifyUnsigned(token, secret) == IF token.expired THEN "TokenExpiredError" ELSE "decoded"

\* jwt.verify(token, secret): the signature is checked before the expiry
verify(token, secret) ==
    IF secret = Undefined \/ token.key # secret THEN "JsonWebTokenError"
    ELSE IF token.expired THEN "TokenExpiredError"
    ELSE "decoded"

\* the Authorization header: absent, another scheme, or 'Bearer <token>'
Header(scheme, token) == [scheme |-> scheme, token |-> token]

NoHeader == Header("none", NoToken)

BasicHeader == Header("Basic", NoToken)

Bearer(token) == Header("Bearer", token)

\* outcome of a middleware: status 0 stands for next()
Passed(user) == [status |-> 0, error |-> "", user |-> user]

Rejected(status, error) == [status |-> status, error |-> error, user |-> ""]

\* authenticate that trusts the payload of any token
authenticateUnverified(header, e, users) ==
    IF header.scheme # "Bearer" THEN Rejected(401, "No authorization token provided")
    ELSE IF header.token.userId \notin users THEN Rejected(401, "User not found")
    ELSE Passed(header.token.userId)

\* authenticate(req, res, next)
authenticate(header, e, users) ==
    IF header.scheme # "Bearer" THEN Rejected(401, "No authorization token provided")
    ELSE LET v == verify(header.token, e.JWT_SECRET)
         IN IF v = "JsonWebTokenError" THEN Rejected(401, "Invalid token")
            ELSE IF v = "TokenExpiredError" THEN Rejected(401, "Token expired")
            ELSE IF header.token.userId \notin users THEN Rejected(401, "User not found")
            ELSE Passed(header.token.userId)

\* ------------------------------------------------------------------------
\* Backend: rate limiters and request validation
\* ------------------------------------------------------------------------
\* reviewRateLimiter: max
ReviewMax == 10

\* authRateLimiter: max
AuthMax == 5

\* how far a limiter's counter is followed beyond its max
MaxOver == 1

\* express-rate-limit: the request that brings the key's count to totalHits
\* is let through while totalHits <= max
underLimit(totalHits, max) == totalHits <= max

ClientIp == "10.0.0.1"

\* a limiter keyed by the address alone
keyGeneratorIp(user, ip) == ip

\* keyGenerator: req.user?.id || req.ip
keyGenerator(user, ip) == IF user = "" THEN ip ELSE user

LimiterKeys == ApiUsers \cup {ClientIp}

\* a request body field holding text: the characters and the surrounding
\* whitespace
Text(chars, padding) == [chars |-> chars, padding |-> padding]

\* .trim()
trim(text) == Text(text.chars, 0)

length(text) == text.chars + text.padding

MinCodeLength == 10

MaxCodeLength == 50000

SupportedLanguages == {"javascript", "typescript", "python", "go", "java", "cpp", "c"}

SkillLevels == {"junior", "mid", "senior"}

validAreas == {"bugs", "performance", "security", "clean-code", "all"}

\* an optional body field is absent, an array, or a bare string
AbsentField == Field("absent", <<>>)

\* body('code').trim().notEmpty().isString().isLength({ min: 10, max: 50000 })
codeOk(code) ==
    /\ length(trim(code)) > 0
    /\ length(trim(code)) >= MinCodeLength
    /\ length(trim(code)) <= MaxCodeLength

\* the length check applied to the text as sent
codeOkUntrimmed(code) ==
    /\ length(code) >= MinCodeLength
    /\ length(code) <= MaxCodeLength

\* body('language').trim().notEmpty().isIn([...])
languageOk(language) == language # "" /\ language \in SupportedLanguages

\* body('skillLevel').optional().trim().isIn(['junior', 'mid', 'senior'])
skillLevelOk(skillLevel) == skillLevel = Undefined \/ skillLevel \in SkillLevels

\* body('focusAreas').optional().isArray().custom(...)
focusAreasOk(focusAreas) ==
    \/ focusAreas.type = "absent"
    \/ /\ focusAreas.type = "array"
       /\ \A k \in 1..Len(focusAreas.value) : focusAreas.value[k] \in validAreas

\* validateCodeReview with the code measured before trimming
validateCodeReviewUntrimmed(body) ==
    /\ codeOkUntrimmed(body.code)
    /\ languageOk(body.language)
    /\ skillLevelOk(body.skillLevel)
    /\ focusAreasOk(body.focusAreas)

\* validateCodeReview: validationResult(req).isEmpty()
validateCodeReview(body) ==
    /\ codeOk(body.code)
    /\ languageOk(body.language)
    /\ skillLevelOk(body.skillLevel)
    /\ focusAreasOk(body.focusAreas)

\* handleValidationErrors
handleValidationErrors(valid) ==
    IF valid THEN Passed("") ELSE Rejected(400, "Validation failed")

\* request bodies of POST /analyze
Codes == {Text(0, 0), Text(9, 3), Text(10, 0), Text(50000, 3), Text(50001, 0)}

LanguagesSent == {"python", "ruby", ""}

SkillLevelsSent == {Undefined, "mid", "expert"}

FocusAreasSent ==
    {AbsentField, Field("array", <<"bugs", "all">>), Field("array", <<"bugs", "style">>),
     Field("string", <<"bugs">>)}

Body(code, language, skillLevel, focusAreas) ==
    [code |-> code, language |-> language, skillLevel |-> skillLevel, focusAreas |-> focusAreas]

ValidBody == Body(Text(10, 0), "python", "mid", Field("array", <<"bugs", "all">>))

\* the bodies sent: the valid one, the ones that differ from it in one
\* field, and one with every field wrong
Bodies ==
    {Body(c, ValidBody.language, ValidBody.skillLevel, ValidBody.focusAreas) : c \in Codes}
        \cup {Body(ValidBody.code, l, ValidBody.skillLevel, ValidBody.focusAreas) : l \in LanguagesSent}
        \cup {Body(ValidBody.code, ValidBody.language, k, ValidBody.focusAreas) : k \in SkillLevelsSent}
        \cup {Body(ValidBody.code, ValidBody.language, ValidBody.skillLevel, f) : f \in FocusAreasSent}
        \cup {Body(Text(0, 0), "", "expert", Field("string", <<"bugs">>))}

NoBody == Body(Text(0, 0), "", Undefined, AbsentField)

\* what became of one request: the stage that answered it
Exchange(header, body, stage, status, error, user, hit, agentCalled, stored) ==
    [header |-> header, body |-> body, stage |-> stage, status |-> status, error |-> error,
     user |-> user, hit |-> hit, agentCalled |-> agentCalled, stored |-> stored]

NoExchange == Exchange(NoHeader, NoBody, "none", 0, "", "", 0, FALSE, FALSE)

\* ------------------------------------------------------------------------
\* Backend: the authentication routes
\* ------------------------------------------------------------------------
\* review routes that start with authenticate
ProtectedRoutes == {"analyze", "history", "getReview", "deleteReview", "stats"}

\* validateOAuth: body('code').trim().notEmpty(), body('provider').trim().isIn([...])
validateOAuth(code, provider) == code # "" /\ provider \in {"google", "github"}

\* exchangeOAuthCode: mockUsers[provider] || mockUsers.google
exchangeOAuthCode(code, provider) == IF provider = "github" THEN "github_123456" ELSE "google_123456"

\* the id of the users row found or created for an OAuth id
userIdOf(oauthId) == IF oauthId = "google_123456" THEN "u1" ELSE "u2"

\* generateTokens(userId)
generateTokens(userId, e) == {generateAccessToken(userId, e), generateRefreshToken(userId, e)}

\* errorHandler for an error thrown by jwt.verify or by the handler
errorHandlerNamed(name, message) ==
    IF name = "JsonWebTokenError" THEN Rejected(401, "Invalid token")
    ELSE IF name = "TokenExpiredError" THEN Rejected(401, "Token expired")
    ELSE Rejected(500, message)

\* the same token presented after its exp
Expire(token) == Token(token.userId, token.type, token.key, TRUE)

\* what became of one request to an authentication or protected route
AuthExchange(route, header, refreshToken, stage, status, error, user, hit, tokens) ==
    [route |-> route, header |-> header, refreshToken |-> refreshToken, stage |-> stage,
     status |-> status, error |-> error, user |-> user, hit |-> hit, tokens |-> tokens]

NoAuthExchange == AuthExchange("none", NoHeader, NoToken, "none", 0, "", "", 0, {})

\* ------------------------------------------------------------------------
\* Backend: JSON text columns of the reviews table
\* ------------------------------------------------------------------------
\* a JSON value: a number (kept in half-units), a string, an array, or an
\* object (items in key order)
JNum(n2) == [t |-> "num", n |-> n2, s |-> "", items |-> <<>>]

JStr(s) == [t |-> "str", n |-> 0, s |-> s, items |-> <<>>]

JArr(values) ==
    [t |-> "arr", n |-> 0, s |-> "", items |-> [i \in 1..Len(values) |-> [k |-> "", v |-> values[i]]]]

JObj(pairs) == [t |-> "obj", n |-> 0, s |-> "", items |-> pairs]

Pair(key, value) == [k |-> key, v |-> value]

\* one token of JSON text: a punctuation mark, a digit, or a string literal
Tok(kind, text) == [kind |-> kind, text |-> text]

Digit(d) == <<"0", "1", "2", "3", "4", "5", "6", "7", "8", "9">>[d + 1]

DigitValue(c) == CHOOSE d \in 0..9 : Digit(d) = c

RECURSIVE digitsOf(_)
digitsOf(n) ==
    IF n < 10 THEN <<Tok("digit", Digit(n))>>
    ELSE Append(digitsOf(n \div 10), Tok("digit", Digit(n % 10)))

\* a number written without its fraction
numberTextTruncated(n2) == digitsOf(n2 \div 2)

\* the decimal text of a number
numberText(n2) ==
    digitsOf(n2 \div 2) \o (IF n2 % 2 = 1 THEN <<Tok("punct", "."), Tok("digit", "5")>> ELSE <<>>)

RECURSIVE stringify(_), stringifyItems(_, _, _)
\* JSON.stringify(value)
stringify(j) ==
    IF j.t = "num" THEN numberText(j.n)
    ELSE IF j.t = "str" THEN <<Tok("string", j.s)>>
    ELSE IF j.t = "arr"
    THEN <<Tok("punct", "[")>> \o stringifyItems(j.items, 1, FALSE) \o <<Tok("punct", "]")>>
    ELSE <<Tok("punct", "{")>> \o stringifyItems(j.items, 1, TRUE) \o <<Tok("punct", "}")>>

stringifyItems(items, i, withKeys) ==
    IF i > Len(items) THEN <<>>
    ELSE (IF i > 1 THEN <<Tok("punct", ",")>> ELSE <<>>)
            \o (IF withKeys THEN <<Tok("string", items[i].k), Tok("punct", ":")>> ELSE <<>>)
            \o stringify(items[i].v)
            \o stringifyItems(items, i + 1, withKeys)

IsPunct(toks, i, mark) == i <= Len(toks) /\ toks[i].kind = "punct" /\ toks[i].text = mark

RECURSIVE readDigits(_, _, _)
readDigits(toks, i, acc) ==
    IF i <= Len(toks) /\ toks[i].kind = "digit"
    THEN readDigits(toks, i + 1, 10 * acc + DigitValue(toks[i].text))
    ELSE [n |-> acc, next |-> i]

parseNumber(toks, i) ==
    LET whole == readDigits(toks, i, 0)
    IN IF IsPunct(toks, whole.next, ".")
       THEN [v |-> JNum(2 * whole.n + 1), next |-> whole.next + 2]
       ELSE [v |-> JNum(2 * whole.n), next |-> whole.next]

RECURSIVE parseValue(_, _), parseItems(_, _, _, _)
parseValue(toks, i) ==
    IF toks[i].kind = "digit" THEN parseNumber(toks, i)
    ELSE IF toks[i].kind = "string" THEN [v |-> JStr(toks[i].text), next |-> i + 1]
    ELSE IF IsPunct(toks, i, "[") THEN parseItems(toks, i + 1, <<>>, FALSE)
    ELSE parseItems(toks, i + 1, <<>>, TRUE)

parseItems(toks, i, acc, withKeys) ==
    IF IsPunct(toks, i, IF withKeys THEN "}" ELSE "]")
    THEN [v |-> [t |-> IF withKeys THEN "obj" ELSE "arr", n |-> 0, s |-> "", items |-> acc],
          next |-> i + 1]
    ELSE IF IsPunct(toks, i, ",") THEN parseItems(toks, i + 1, acc, withKeys)
    ELSE IF withKeys
    THEN LET r == parseValue(toks, i + 2)
         IN parseItems(toks, r.next, Append(acc, Pair(toks[i].text, r.v)), TRUE)
    ELSE LET r == parseValue(toks, i)
         IN parseItems(toks, r.next, Append(acc, Pair("", r.v)), FALSE)

\* JSON.parse(text)
parse(toks) == parseValue(toks, 1).v

\* the member of an object
Member(j, key) == (CHOOSE p \in {j.items[i] : i \in 1..Len(j.items)} : p.k = key).v

\* the JSON value of a list of strings, and back
stringsToJson(list) == JArr([i \in 1..Len(list) |-> JStr(list[i])])

stringsFromJson(j) == [i \in 1..Len(j.items) |-> j.items[i].v.s]

issueToJson(issue) ==
    JObj(<<Pair("line", JNum(2 * issue.line)), Pair("severity", JStr(issue.severity)),
           Pair("category", JStr(issue.category)), Pair("message", JStr(issue.message))>>)

issueFromJson(j) ==
    Issue(Member(j, "line").n \div 2, Member(j, "severity").s, Member(j, "category").s,
          Member(j, "message").s)

scoreToJson(card) ==
    JObj([i \in 1..5 |-> Pair(DimensionOrder[i], JNum(card.dims[DimensionOrder[i]]))]
            \o <<Pair("overall", JNum(2 * card.overall))>>)

scoreFromJson(j) ==
    [dims |-> [d \in Dimensions |-> Member(j, d).n], overall |-> Member(j, "overall").n \div 2]

\* the ReviewResult as the JSON value the agent returned, and back
resultToJson(r) ==
    JObj(<<Pair("score", scoreToJson(r.score)),
           Pair("issues", JArr([i \in 1..Len(r.issues) |-> issueToJson(r.issues[i])])),
           Pair("improvedCode", JStr(r.improvedCode)),
           Pair("mentorExplanation", JStr(r.mentorExplanation)),
           Pair("followUpQuestions", stringsToJson(r.followUpQuestions))>>)

resultFromJson(j) ==
    [score |-> scoreFromJson(Member(j, "score")),
     issues |-> [i \in 1..Len(Member(j, "issues").items) |->
                    issueFromJson(Member(j, "issues").items[i].v)],
     improvedCode |-> Member(j, "improvedCode").s,
     mentorExplanation |-> Member(j, "mentorExplanation").s,
     followUpQuestions |-> stringsFromJson(Member(j, "followUpQuestions"))]

\* ------------------------------------------------------------------------
\* Backend: the reviews table and the history query
\* ------------------------------------------------------------------------
MaxReviews == 2

MaxClock == 2

\* focusAreas = ['bugs', 'performance', 'security', 'clean-code'] when the
\* body has none
DefaultFocusAreas == <<"bugs", "performance", "security", "clean-code">>

focusAreasOf(body) ==
    IF body.focusAreas.type = "absent" THEN DefaultFocusAreas ELSE body.focusAreas.value

\* Review.create: the row, with focusAreas and reviewResult as JSON text
create(id, userId, body, reviewResult, now) ==
    [id |-> id, user_id |-> userId, code |-> body.code, language |-> body.language,
     focus_areas |-> stringify(stringsToJson(focusAreasOf(body))),
     review_result |-> stringify(resultToJson(reviewResult)), created_at |-> now]

Range(seq) == {seq[i] : i \in 1..Len(seq)}

\* Review.findById(id, userId): the set of matching rows (at most one)
findById(table, id, userId) == {row \in Range(table) : row.id = id /\ row.user_id = userId}

\* Review.delete(id, userId)
delete(table, id, userId) ==
    SelectSeq(table, LAMBDA row : ~(row.id = id /\ row.user_id = userId))

\* the rows of a user in every order ORDER BY created_at DESC allows
OrdersByCreatedAtDesc(table, userId) ==
    LET mine == SelectSeq(table, LAMBDA row : row.user_id = userId)
        n == Len(mine)
    IN {[i \in 1..n |-> mine[perm[i]]] :
          perm \in {f \in [1..n -> 1..n] :
                      /\ \A i, j \in 1..n : i # j => f[i] # f[j]
                      /\ \A i \in 1..(n - 1) : mine[f[i]].created_at >= mine[f[i + 1]].created_at}}

Min(a, b) == IF a < b THEN a ELSE b

\* LIMIT ? OFFSET ?
limitOffset(ordered, limit, offset) == SubSeq(ordered, offset + 1, Min(Len(ordered), offset + limit))

\* a query parameter: absent or a number
Query(kind, n) == [kind |-> kind, n |-> n]

AbsentQuery == Query("absent", 0)

NaN == [nan |-> TRUE, n |-> 0]

\* parseInt(req.query.x)
parseInt(q) == IF q.kind = "int" THEN [nan |-> FALSE, n |-> q.n] ELSE NaN

\* x || fallback
orElse(x, fallback) == IF x.nan \/ x.n = 0 THEN fallback ELSE x.n

DefaultLimit == 20

MaxLimit == 100

\* json_extract(review_result, '$.score.overall'), in half-units
overallOf(row) == Member(Member(parse(row.review_result), "score"), "overall").n

RECURSIVE sumOverall(_)
sumOverall(list) ==
    IF list = <<>> THEN 0 ELSE overallOf(Head(list)) + sumOverall(Tail(list))

\* Review.getStats with every user's rows counted
getStatsOfAll(table, userId) ==
    [total_reviews |-> Len(table), sum2 |-> sumOverall(table),
     languages_used |-> Cardinality({table[i].language : i \in 1..Len(table)})]

\* Review.getStats(userId): COUNT(*), AVG(overall) kept as the sum (in
\* half-units) over the count, COUNT(DISTINCT language), WHERE user_id = ?
getStats(table, userId) ==
    LET mine == SelectSeq(table, LAMBDA row : row.user_id = userId)
    IN [total_reviews |-> Len(mine), sum2 |-> sumOverall(mine),
        languages_used |-> Cardinality({mine[i].language : i \in 1..Len(mine)})]

\* stats.avg_score ? Math.round(stats.avg_score) : 0
averageScore(stats) ==
    IF stats.total_reviews = 0 \/ stats.sum2 = 0 THEN 0
    ELSE (stats.sum2 + stats.total_reviews) \div (2 * stats.total_reviews)

\* { totalReviews, averageScore, languagesUsed } of the answer
statsOf(stats) ==
    [totalReviews |-> stats.total_reviews, averageScore |-> averageScore(stats),
     languagesUsed |-> stats.languages_used]

RecentLimit == 5

\* one row of Review.getRecentSummary (skill_level and code_preview left out)
summaryOf(row) ==
    [id |-> row.id, language |-> row.language, score |-> overallOf(row) \div 2,
     created_at |-> row.created_at]

\* the analyze call as the caller saw it
Made(userId, focusAreas, reviewResult) ==
    [user |-> userId, focusAreas |-> focusAreas, reviewResult |-> reviewResult]

\* what became of one request to a review route
StoreExchange(route, user, id, limit, offset, status, error, focusAreas, reviewResult, list) ==
    [route |-> route, user |-> user, id |-> id, limit |-> limit, offset |-> offset,
     status |-> status, error |-> error, focusAreas |-> focusAreas,
     reviewResult |-> reviewResult, reviews |-> list]

\* ------------------------------------------------------------------------
\* State
\* ------------------------------------------------------------------------
VARIABLES
    sIssues, sAdjustment, sCard, sPhase,   \* scorer specification
    request,      \* the validated AnalysisRequest of the handler, with its user
    call,         \* axios call of analyzeCode: "none", "pending", "ok" or how it failed
    response,     \* what the handler or the error handler sent
    reviews,      \* rows of the reviews table
    phase,        \* orchestrator: "idle", "running", "assembled"
    detState,     \* per detector: "skipped", "pending", "done", "fault"
    detOut,       \* per detector: the issues it returned
    analysis,     \* outcome of the Model Analyzer
    result,       \* the ReviewResult of run(request)
    hits,         \* reviewRateLimiter store: requests counted per key in the window
    passed,       \* per user: requests the review limiter let through in the window
    aLast,        \* the last POST /analyze exchange
    userDb,       \* ids of the rows of the users table
    authHits,     \* authRateLimiter store: requests counted per IP in the window
    refreshSeen,  \* per IP: refresh requests received in the window
    issued,       \* tokens handed out so far
    loggedOut,    \* tokens that had been issued when logout was last confirmed
    sLast,        \* the last exchange on an authentication or protected route
    rows,         \* the reviews table
    clock,        \* Math.floor(Date.now() / 1000)
    made,         \* per review id: the analyze call that created it
    rLast,        \* the last exchange on a review route
    env,          \* process.env of the backend: the two JWT secrets
    rStats,       \* the statistics of the last answer that carried any
    shown,        \* frontend page shown: "dashboard", "history" or "blank"
    dashCode,     \* DashboardPage: code
    dashLoading,  \* DashboardPage: loading
    dashResult,   \* DashboardPage: reviewResult (NoResult stands for null)
    activeTab,    \* DashboardPage: activeTab
    settings,     \* Sidebar: language, skillLevel and focusAreas
    inFlight,     \* the submitCodeReview calls of the mounted dashboard not settled yet
    settled,      \* how the last analyze call of the dashboard settled
    hLoading,     \* HistoryPage: loading
    hReviews,     \* HistoryPage: reviews
    localStorage, \* window.localStorage: per key the text stored (<<>> when absent)
    req,          \* per request made through the api instance: where it stands
    nav,          \* "none", "leaving" once window.location.href = '/login' ran, "login"
    authUser,     \* AuthProvider: the state user (Null or the user object)
    authLoading,  \* AuthProvider: the state loading
    pending,      \* AuthProvider: the calls of authService awaited
    authEnded,    \* AuthProvider: the call of login, logout or refreshSession that ended last
    usersTable,   \* the rows of the users table, in rowid order
    logins,       \* POST /login: the handlers awaiting exchangeOAuthCode
    lLast         \* POST /login: what the handler that ran last found and answered

scorerVars == <<sIssues, sAdjustment, sCard, sPhase>>

backendVars == <<request, call, response, reviews>>

agentVars == <<phase, detState, detOut, analysis, result>>

analyzeVars == <<hits, passed, aLast>>

authVars == <<userDb, authHits, refreshSeen, issued, loggedOut, sLast>>

storeVars == <<rows, clock, made, rLast>>

loginVars == <<usersTable, logins, lLast>>

serverVars == <<env, rStats, loginVars>>

dashVars == <<shown, dashCode, dashLoading, dashResult, activeTab, settings, inFlight,
              settled, hLoading, hReviews>>

icVars == <<req, nav>>

providerVars == <<authUser, authLoading, pending, authEnded>>

clientVars == <<dashVars, localStorage, icVars, providerVars>>

apiVars == <<analyzeVars, authVars, storeVars, serverVars, clientVars>>

vars == <<sIssues, sAdjustment, sCard, sPhase, request, call, response, reviews,
          phase, detState, detOut, analysis, result, hits, passed, aLast,
          userDb, authHits, refreshSeen, issued, loggedOut, sLast,
          rows, clock, made, rLast, env, rStats,
          shown, dashCode, dashLoading, dashResult, activeTab, settings, inFlight,
          settled, hLoading, hReviews, localStorage, req, nav,
          authUser, authLoading, pending, authEnded, usersTable, logins, lLast>>

NoRequest == [code |-> "", focusAreas |-> {}, userId |-> ""]

NoResult == [score |-> [dims |-> [d \in Dimensions |-> 0 - 1], overall |-> 0 - 1], issues |-> <<>>,
             improvedCode |-> "", mentorExplanation |-> "", followUpQuestions |-> <<>>]

Users == {"u1"}

PipelineIdle ==
    /\ request = NoRequest
    /\ call = "none"
    /\ response = NoResponse
    /\ reviews = <<>>
    /\ phase = "idle"
    /\ detState = [d \in Detectors |-> "skipped"]
    /\ detOut = [d \in Detectors |-> <<>>]
    /\ analysis = Unresolved
    /\ result = NoResult

NoCard == [dims |-> [d \in Dimensions |-> 0 - 1], overall |-> 0 - 1]

AnalyzeIdle ==
    /\ hits = [k \in LimiterKeys |-> 0]
    /\ passed = [u \in ApiUsers |-> 0]
    /\ aLast = NoExchange

AuthIdle ==
    /\ userDb = {}
    /\ authHits = [ip \in {ClientIp} |-> 0]
    /\ refreshSeen = [ip \in {ClientIp} |-> 0]
    /\ issued = {}
    /\ loggedOut = {}
    /\ sLast = NoAuthExchange

NoStoreExchange == StoreExchange("none", "", 0, AbsentQuery, AbsentQuery, 0, "", <<>>, NoResult, <<>>)

StoreIdle ==
    /\ rows = <<>>
    /\ clock = 1
    /\ made = <<>>
    /\ rLast = NoStoreExchange

\* an answer without statistics
NoStats == [totalReviews |-> 0 - 1, averageScore |-> 0 - 1, languagesUsed |-> 0 - 1]

\* what became of one login: the identity, the branch taken, the answer
LoginExchange(identity, branch, status, user, tokens) ==
    [identity |-> identity, branch |-> branch, status |-> status, user |-> user,
     tokens |-> tokens]

NoLoginExchange == LoginExchange([oauthId |-> "", email |-> ""], "none", 0, "", {})

LoginIdle ==
    /\ usersTable = <<>>
    /\ logins = <<>>
    /\ lLast = NoLoginExchange

ServerIdle ==
    /\ env = EnvSet
    /\ rStats = NoStats
    /\ LoginIdle

StorageKeys == {"accessToken", "refreshToken", "user", "selectedReview"}

\* localStorage.getItem(key) === null for every key
EmptyStorage == [k \in StorageKeys |-> <<>>]

\* Sidebar as useState initialises it
DefaultSettings ==
    [language |-> "javascript", skillLevel |-> "mid",
     focusAreas |-> <<"bugs", "performance", "security", "clean-code">>]

\* DashboardPage as useState initialises it
DashboardMounted ==
    /\ dashCode = Text(0, 0)
    /\ dashLoading = FALSE
    /\ dashResult = NoResult
    /\ activeTab = "issues"
    /\ settings = DefaultSettings

DashIdle ==
    /\ shown = "dashboard"
    /\ DashboardMounted
    /\ inFlight = <<>>
    /\ settled = "none"
    /\ hLoading = FALSE
    /\ hReviews = <<>>

\* the requests followed through the interceptors of the api instance
Requests == {"r1", "r2"}

\* a request: pc is "idle", "sent", "refreshing", "replayed", "resolved",
\* "rejected" or "aborted"; retry is config._retry; auth is the token of its
\* Authorization header; status is the last status answered
Request(pc, retry, auth, status, sends, refreshCalls) ==
    [pc |-> pc, retry |-> retry, auth |-> auth, status |-> status, sends |-> sends,
     refreshCalls |-> refreshCalls]

InterceptorIdle ==
    /\ req = [r \in Requests |-> Request("idle", FALSE, <<>>, 0, 0, 0)]
    /\ nav = "none"

\* JavaScript null as a value of the JSON kind
Null == [t |-> "null", n |-> 0, s |-> "", items |-> <<>>]

\* AuthProvider as useState initialises it, before the effect of the mount
ProviderIdle ==
    /\ authUser = Null
    /\ authLoading = TRUE
    /\ pending = <<>>
    /\ authEnded = "none"

ClientIdle ==
    /\ DashIdle
    /\ localStorage = EmptyStorage
    /\ InterceptorIdle
    /\ ProviderIdle

ApiIdle == AnalyzeIdle /\ AuthIdle /\ StoreIdle /\ ServerIdle /\ ClientIdle

\* ------------------------------------------------------------------------
\* Scorer specification: the scorer applied to every bounded issue list
\* ------------------------------------------------------------------------
ScorerInit ==
    /\ sIssues = <<>>
    /\ sAdjustment = Absent
    /\ sCard = NoCard
    /\ sPhase = "collect"
    /\ PipelineIdle
    /\ ApiIdle

CategoryRank(cat) ==
    CASE cat = "bug" -> 0
      [] cat = "anti-pattern" -> 1
      [] cat = "security" -> 2
      [] cat = "performance" -> 3
      [] cat = "clean-code" -> 4

KindRank(issue) == 100 * CategoryRank(issue.category) + SeverityPoints(issue.severity)

\* The list grows in the order the registry produces it (detector by
\* detector); other orders of the same issues are the subject of
\* SpecReorder.
AddIssue ==
    /\ sPhase = "collect"
    /\ Len(sIssues) < MaxIssues
    /\ \E i \in ScorerIssues :
         /\ IF sIssues = <<>> THEN TRUE ELSE KindRank(sIssues[Len(sIssues)]) <= KindRank(i)
         /\ sIssues' = Append(sIssues, i)
    /\ UNCHANGED <<sAdjustment, sCard, sPhase, backendVars, agentVars, apiVars>>

RunScorer ==
    /\ sPhase = "collect"
    /\ \E adj \in Adjustments \cup {Absent} :
         /\ sAdjustment' = adj
         /\ sCard' = score(sIssues, adj)
    /\ sPhase' = "scored"
    /\ UNCHANGED <<sIssues, backendVars, agentVars, apiVars>>

ScorerNext == AddIssue \/ RunScorer

SpecScorer == ScorerInit /\ [][ScorerNext]_vars

\* ------------------------------------------------------------------------
\* Reordering specification: the scorer applied again to a reordered list
\* ------------------------------------------------------------------------
AddReorderIssue ==
    /\ sPhase = "collect"
    /\ Len(sIssues) < MaxReorder
    /\ \E i \in ReorderIssues : sIssues' = Append(sIssues, i)
    /\ UNCHANGED <<sAdjustment, sCard, sPhase, backendVars, agentVars, apiVars>>

SwapAt(seq, k) ==
    [i \in 1..Len(seq) |-> IF i = k THEN seq[k + 1] ELSE IF i = k + 1 THEN seq[k] ELSE seq[i]]

\* adjacent transpositions generate every permutation of the list
Reorder ==
    /\ sPhase = "scored"
    /\ \E k \in 1..(Len(sIssues) - 1) :
         /\ sIssues[k] # sIssues[k + 1]
         /\ sIssues' = SwapAt(sIssues, k)
         /\ sCard' = score(SwapAt(sIssues, k), sAdjustment)
    /\ UNCHANGED <<sAdjustment, sPhase, backendVars, agentVars, apiVars>>

ReorderNext == AddReorderIssue \/ RunScorer \/ Reorder

SpecReorder == ScorerInit /\ [][ReorderNext]_vars

\* ------------------------------------------------------------------------
\* Properties of the Scorer
\* ------------------------------------------------------------------------
Scored == sPhase = "scored"

\* the dimensions after steps 1-4, before the adjustment
ClampedDeductions(issues) == ClampAll(ApplyDeductions(InitialDimensions, issues))

RawDeductions(issues) == ApplyDeductions(InitialDimensions, issues)

\* C1: for every issue list and every adjustment (absent, positive or
\* negative), each of the five dimensions and overall lie in [0,100]; the
\* additive adjustment applied after the first clamp never leaves a
\* dimension below 0 or above 100.
C1_ScoresInRange ==
    Scored =>
        /\ \A d \in Dimensions : sCard.dims[d] >= 0 /\ sCard.dims[d] <= 2 * 100
        /\ sCard.overall >= 0 /\ sCard.overall <= 100

\* a scored list whose adjustment would push one clamped dimension below 0
\* and another one above 100
C1_Witness ==
    /\ Scored
    /\ sAdjustment.present
    /\ \E d \in Dimensions :
         /\ ClampedDeductions(sIssues)[d] > 0
         /\ ClampedDeductions(sIssues)[d] + 2 * sAdjustment.delta[d] < 0
         /\ sCard.dims[d] = 0
    /\ \E d \in Dimensions :
         /\ ClampedDeductions(sIssues)[d] < 2 * 100
         /\ ClampedDeductions(sIssues)[d] + 2 * sAdjustment.delta[d] > 2 * 100
         /\ sCard.dims[d] = 2 * 100

\* C2: overall is the unweighted mean of the five final dimensions rounded
\* to the nearest integer (at most one half away from the mean); the empty
\* list without adjustment scores 100 in every dimension and overall.
C2_OverallIsRoundedMean ==
    Scored =>
        LET total2 == sCard.dims["correctness"] + sCard.dims["readability"]
                        + sCard.dims["maintainability"] + sCard.dims["performance"]
                        + sCard.dims["security"]
        IN /\ 10 * sCard.overall - 5 <= total2
           /\ total2 <= 10 * sCard.overall + 5
           /\ (sIssues = <<>> /\ ~sAdjustment.present) =>
                  /\ \A d \in Dimensions : sCard.dims[d] = 2 * 100
                  /\ sCard.overall = 100

\* a scored non-empty list with an adjustment whose mean is not an integer
C2_Witness ==
    /\ Scored
    /\ sIssues # <<>>
    /\ sAdjustment.present
    /\ (sCard.dims["correctness"] + sCard.dims["readability"] + sCard.dims["maintainability"]
          + sCard.dims["performance"] + sCard.dims["security"]) % 10 \in 6..9

OnlyBugIssues(issues) == \A k \in 1..Len(issues) : issues[k].category = "bug"

RECURSIVE SumPoints(_)
SumPoints(issues) ==
    IF issues = <<>> THEN 0 ELSE SeverityPoints(Head(issues).severity) + SumPoints(Tail(issues))

\* C6 as claimed: with only bug issues and no adjustment, security and
\* performance are both exactly 100.
C6_BugLeavesSecurityAndPerformance ==
    (Scored /\ OnlyBugIssues(sIssues) /\ ~sAdjustment.present) =>
        /\ sCard.dims["security"] = 2 * 100
        /\ sCard.dims["performance"] = 2 * 100

\* C6 amended: with only bug issues and no adjustment, performance,
\* readability and maintainability are exactly 100, and security is 100
\* minus half the summed severity points of the bug issues (weight 0.5),
\* not below 0.
C6_BugLeavesPerformance ==
    (Scored /\ OnlyBugIssues(sIssues) /\ ~sAdjustment.present) =>
        /\ sCard.dims["performance"] = 2 * 100
        /\ sCard.dims["readability"] = 2 * 100
        /\ sCard.dims["maintainability"] = 2 * 100
        /\ sCard.dims["security"] =
              (IF SumPoints(sIssues) > 2 * 100 THEN 0 ELSE 2 * 100 - SumPoints(sIssues))

C6_Witness ==
    /\ Scored
    /\ OnlyBugIssues(sIssues)
    /\ Len(sIssues) >= 2
    /\ ~sAdjustment.present
    /\ sCard.dims["security"] < 2 * 100
    /\ sCard.dims["performance"] = 2 * 100

\* C9: the ScoreCard does not depend on the order of the issues: scoring a
\* reordered list (any permutation, reached by adjacent swaps) with the
\* same adjustment gives the same ScoreCard, also when deductions exceed
\* 100 and clamping applies.
C9_OrderIndependent ==
    [][(sPhase = "scored" /\ sPhase' = "scored") => sCard' = sCard]_vars

\* a scored list of different issues whose summed deductions exceed 100
C9_Witness ==
    /\ Scored
    /\ \E d \in Dimensions : RawDeductions(sIssues)[d] < 0
    /\ \E k \in 1..(Len(sIssues) - 1) : sIssues[k].category # sIssues[k + 1].category


\* ------------------------------------------------------------------------
\* Specification of one analyze request: backend handler and agent pipeline
\* ------------------------------------------------------------------------
Init ==
    /\ sIssues = <<>>
    /\ sAdjustment = Absent
    /\ sCard = NoCard
    /\ sPhase = "off"
    /\ PipelineIdle
    /\ ApiIdle

\* POST /analyze after authenticate, rate limiter and validation: the handler
\* calls analyzeCode, which posts the request to the agent.
SubmitRequest ==
    /\ call = "none"
    /\ \E code \in Snippets, focus \in SUBSET FocusArea, u \in Users :
         request' = [code |-> code, focusAreas |-> focus, userId |-> u]
    /\ call' = "pending"
    /\ UNCHANGED <<response, reviews, scorerVars, agentVars, apiVars>>

\* analyzeCode throws, asyncHandler passes the Error to errorHandler.
FailCall(failure) ==
    /\ call' = failure
    /\ response' = errorHandler(analyzeCodeError(failure))
    /\ UNCHANGED <<request, reviews, scorerVars, agentVars, apiVars>>

ConnectionRefused ==
    /\ call = "pending"
    /\ phase = "idle"
    /\ FailCall("ECONNREFUSED")

AgentError ==
    /\ call = "pending"
    /\ phase = "idle"
    /\ \E f \in {"errorBody", "status500", "other"} : FailCall(f)

\* a call without the timeout option: nothing settles a silent call
CallTimeoutNever ==
    /\ FALSE
    /\ UNCHANGED vars

\* timeout: 30000 -- axios rejects the pending call when the timer fires
CallTimeout ==
    /\ call = "pending"
    /\ FailCall("timeout")

\* run(request): the registry starts the selected detectors and the
\* analyzer call is dispatched.
StartRun ==
    /\ call = "pending"
    /\ phase = "idle"
    /\ phase' = "running"
    /\ detState' = [d \in Detectors |->
                      IF Selected(d, request.focusAreas) THEN "pending" ELSE "skipped"]
    /\ UNCHANGED <<detOut, analysis, result, backendVars, scorerVars, apiVars>>

DetectorDone ==
    /\ phase = "running"
    /\ call = "pending"
    /\ \E d \in Detectors :
         /\ detState[d] = "pending"
         /\ detState' = [detState EXCEPT ![d] = "done"]
         /\ detOut' = [detOut EXCEPT ![d] = detect(d, request.code)]
    /\ UNCHANGED <<phase, analysis, result, backendVars, scorerVars, apiVars>>

\* DetectorFault: isolated, treated as no issues from this detector
DetectorFault ==
    /\ phase = "running"
    /\ call = "pending"
    /\ \E d \in Detectors :
         /\ detState[d] = "pending"
         /\ detState' = [detState EXCEPT ![d] = "fault"]
         /\ detOut' = [detOut EXCEPT ![d] = <<>>]
    /\ UNCHANGED <<phase, analysis, result, backendVars, scorerVars, apiVars>>

AnalyzerReplies ==
    /\ phase = "running"
    /\ call = "pending"
    /\ analysis.kind = "pending"
    /\ \E raw \in RawReplies : analysis' = parseReply(raw)
    /\ UNCHANGED <<phase, detState, detOut, result, backendVars, scorerVars, apiVars>>

AnalyzerFails ==
    /\ phase = "running"
    /\ call = "pending"
    /\ analysis.kind = "pending"
    /\ \E why \in ProviderFailures : analysis' = Failure(why, NoReply)
    /\ UNCHANGED <<phase, detState, detOut, result, backendVars, scorerVars, apiVars>>

\* a merge point that waits for the detectors only
BarrierDetectorsOnly(states, outcome) == \A d \in Detectors : states[d] # "pending"

\* the merge point: every selected detector finished, the analyzer resolved
Barrier(states, outcome) ==
    /\ \A d \in Detectors : states[d] # "pending"
    /\ outcome.kind # "pending"

Finish ==
    /\ phase = "running"
    /\ call = "pending"
    /\ Barrier(detState, analysis)
    /\ result' = assemble(CollectIssues(RegistryOrder, detOut), analysis)
    /\ phase' = "assembled"
    /\ UNCHANGED <<detState, detOut, analysis, backendVars, scorerVars, apiVars>>

\* the agent answers 200 with the ReviewResult; the handler stores the
\* review and sends it.
AgentResponds ==
    /\ phase = "assembled"
    /\ call = "pending"
    /\ LET row == ReviewRow(Len(reviews) + 1, request.userId, request, result, Len(reviews) + 1)
       IN /\ reviews' = Append(reviews, row)
          /\ response' = analyzeResponse(row, row.review_result)
    /\ call' = "ok"
    /\ UNCHANGED <<request, scorerVars, agentVars, apiVars>>

Next ==
    \/ SubmitRequest
    \/ ConnectionRefused
    \/ AgentError
    \/ CallTimeout
    \/ StartRun
    \/ DetectorDone
    \/ DetectorFault
    \/ AnalyzerReplies
    \/ AnalyzerFails
    \/ Finish
    \/ AgentResponds

Spec == Init /\ [][Next]_vars

\* ------------------------------------------------------------------------
\* Properties of the pipeline and of the analyze route
\* ------------------------------------------------------------------------
Assembled == phase = "assembled"

RegistryIssues == CollectIssues(RegistryOrder, detOut)

\* C3: when the Model Analyzer fails (transport, timeout, authentication,
\* invalid reply) the result has an empty improvedCode, no follow-up
\* questions, the degraded explanation, exactly the rule-based issues, and
\* the score of those issues with the adjustment absent.
C3_DegradedOnFailure ==
    (Assembled /\ analysis.kind = "failure") =>
        /\ result.improvedCode = ""
        /\ result.followUpQuestions = <<>>
        /\ result.mentorExplanation = DegradedExplanation
        /\ result.issues = RegistryIssues
        /\ result.score = score(RegistryIssues, Absent)

\* a degraded result with rule-based issues, after a reply that carried an
\* adjustment was rejected
C3_Witness ==
    /\ Assembled
    /\ analysis.kind = "failure"
    /\ analysis.raw.adjustment.present
    /\ Len(result.issues) >= 2
    /\ result.score.overall < 100

\* focus area a category belongs to (anti-pattern findings belong to the
\* clean-code focus area)
CategoryFocus(cat) ==
    CASE cat = "bug" -> "bugs"
      [] cat = "performance" -> "performance"
      [] cat = "security" -> "security"
      [] cat = "clean-code" -> "clean-code"
      [] cat = "anti-pattern" -> "clean-code"

Executed(d) == detState[d] \in {"pending", "done", "fault"}

\* C4: without `all` in focusAreas, every issue of the registry has a
\* category of a requested focus area and no detector of an excluded
\* category is executed; with `all`, all five detectors are executed.
C4_FocusFilter ==
    /\ "all" \notin request.focusAreas =>
          \A d \in Detectors :
            /\ Executed(d) => CategoryFocus(DetectorCategory(d)) \in request.focusAreas
            /\ \A k \in 1..Len(detOut[d]) :
                  CategoryFocus(detOut[d][k].category) \in request.focusAreas
    /\ ("all" \in request.focusAreas /\ phase # "idle") =>
          \A d \in Detectors : Executed(d)

\* clean-code only: the bug and security constructs of the code are not
\* reported, the anti-pattern and clean-code ones are
C4_Witness ==
    /\ Assembled
    /\ request.focusAreas = {"clean-code"}
    /\ request.code = "queryBuilder"
    /\ detState["Bug"] = "skipped"
    /\ detState["Security"] = "skipped"
    /\ detOut["AntiPattern"] # <<>>
    /\ detOut["CleanCode"] # <<>>

Responded == call \notin {"none", "pending"}

ReviewResultFields == {"score", "issues", "improvedCode", "mentorExplanation", "followUpQuestions"}

WellFormedReviewResult(body) ==
    /\ ReviewResultFields \subseteq DOMAIN body
    /\ "error" \notin DOMAIN body

\* C5 as claimed: whatever the outcome of the analysis call, the caller
\* receives a well-formed ReviewResult.
C5_AlwaysReviewResult == Responded => WellFormedReviewResult(response.body)

\* C5 amended: the caller receives a well-formed ReviewResult (with id and
\* createdAt) exactly when the call to the agent succeeds; when the call
\* fails (timeout, connection refused, agent error) the caller receives
\* status 500 with an error-shaped object and no review is stored.
C5_ReviewResultOrError ==
    Responded =>
        IF call = "ok"
        THEN /\ response.status = 200
             /\ WellFormedReviewResult(response.body)
             /\ \A f \in ReviewResultFields : response.body[f] = result[f]
             /\ Len(reviews) = 1
        ELSE /\ response.status = 500
             /\ DOMAIN response.body = {"error"}
             /\ response.body.error # ""
             /\ reviews = <<>>

\* both outcomes are reachable; the one the amendment is about
C5_Witness ==
    /\ call = "timeout"
    /\ phase = "running"
    /\ response.status = 500

C5_WitnessOk ==
    /\ call = "ok"
    /\ analysis.kind = "failure"
    /\ response.status = 200

Malformed(raw) ==
    \/ raw.issues.type # "list"
    \/ raw.improvedCode.type # "string"
    \/ raw.mentorExplanation.type # "string"
    \/ raw.followUpQuestions.type # "list"
    \/ \E k \in 1..Len(raw.issues.value) :
          \/ raw.issues.value[k].severity \notin Severity
          \/ raw.issues.value[k].category \notin Category

\* C7: a reply with a missing or wrongly typed field, or a severity or
\* category outside the enumerations, is rejected as a whole: the analyzer
\* returns a Failure and the result is the degraded one, with no value of
\* that reply in it.
C7_InvalidReplyRejected ==
    (analysis.kind # "pending" /\ analysis.raw # NoReply /\ Malformed(analysis.raw)) =>
        /\ analysis.kind = "failure"
        /\ Assembled =>
              /\ result.issues = RegistryIssues
              /\ result.improvedCode = ""
              /\ result.mentorExplanation = DegradedExplanation
              /\ result.followUpQuestions = <<>>
              /\ result.score = score(RegistryIssues, Absent)
              /\ result = assemble(RegistryIssues, Failure("transport", NoReply))

\* a reply with an unknown severity was received and the run finished
C7_Witness ==
    /\ Assembled
    /\ analysis.raw.issues.type = "list"
    /\ \E k \in 1..Len(analysis.raw.issues.value) :
          analysis.raw.issues.value[k].severity \notin Severity
    /\ analysis.kind = "failure"
    /\ result.issues # <<>>

\* C8: the issues of the result are the detector issues followed by the
\* model issues, each group in its own order, nothing dropped or merged.
C8_RuleBasedThenModel ==
    Assembled =>
        LET det == RegistryIssues
            mod == IF analysis.kind = "reply" THEN analysis.raw.issues.value ELSE <<>>
        IN /\ Len(result.issues) = Len(det) + Len(mod)
           /\ \A k \in 1..Len(det) : result.issues[k] = det[k]
           /\ \A k \in 1..Len(mod) : result.issues[Len(det) + k] = mod[k]

\* a result in which the model repeats an issue a detector reported
C8_Witness ==
    /\ Assembled
    /\ analysis.kind = "reply"
    /\ Len(RegistryIssues) >= 2
    /\ \E i \in 1..Len(RegistryIssues) :
          \E j \in (Len(RegistryIssues) + 1)..Len(result.issues) :
            result.issues[i] = result.issues[j]

\* C10: the result (and its score) exists only after every selected
\* detector has finished and the analyzer has resolved, and the score is
\* the score of the complete issue list.
C10_ScoreAfterBarrier ==
    Assembled =>
        /\ \A d \in Detectors : detState[d] \in {"skipped", "done", "fault"}
        /\ analysis.kind \in {"reply", "failure"}
        /\ result.score =
              score(RegistryIssues \o (IF analysis.kind = "reply" THEN analysis.raw.issues.value ELSE <<>>),
                    IF analysis.kind = "reply" THEN analysis.raw.adjustment ELSE Absent)

\* a finished run with several detectors done, one faulted and a model reply
C10_Witness ==
    /\ Assembled
    /\ analysis.kind = "reply"
    /\ Cardinality({d \in Detectors : detState[d] = "done"}) >= 2
    /\ \E d \in Detectors : detState[d] = "fault"

\* ------------------------------------------------------------------------
\* Termination of the analyze request
\* ------------------------------------------------------------------------
\* The timer armed by the timeout option of axios.post fires once it has
\* been due long enough: weak fairness of CallTimeout.
SpecLive == Init /\ [][Next]_vars /\ WF_vars(CallTimeout)

Settled == call \notin {"none", "pending"}

\* analyzeCode issues one axios.post and rethrows: a settled call is never
\* dispatched again.
SingleCall == [][call' = "pending" => call \in {"none", "pending"}]_vars

\* C11: every analysis request eventually completes: the external call is
\* made at most once per request and a call that neither completes nor
\* errors is resolved to a failure by its timeout, so that no request
\* waits on the call for ever.
C11_RequestCompletes ==
    /\ SingleCall
    /\ (call = "pending") ~> (Settled /\ response # NoResponse)
    /\ [](call = "timeout" => (response.status = 500 /\ reviews = <<>>))

\* the agent was still running, no detector result merged, when the timer
\* settled the call
C11_Witness ==
    /\ call = "timeout"
    /\ phase = "running"
    /\ analysis.kind = "pending"
    /\ \E d \in Detectors : detState[d] = "pending"

\* ------------------------------------------------------------------------
\* Integrality of the dimensions
\* ------------------------------------------------------------------------
\* C12: for every issue list and adjustment each of the five dimensions of
\* the ScoreCard is an integer (an even number of half-points), the
\* deductions being severity points times category weight.
C12_DimensionsAreIntegers ==
    Scored => \A d \in Dimensions : sCard.dims[d] % 2 = 0

\* ------------------------------------------------------------------------
\* Specification of POST /api/reviews/analyze: the middleware chain
\* ------------------------------------------------------------------------
coreVars == <<scorerVars, backendVars, agentVars>>

CoreIdle ==
    /\ sIssues = <<>>
    /\ sAdjustment = Absent
    /\ sCard = NoCard
    /\ sPhase = "off"
    /\ PipelineIdle

AnalyzeInit ==
    /\ CoreIdle
    /\ AnalyzeIdle
    /\ AuthIdle
    /\ StoreIdle
    /\ ServerIdle
    /\ ClientIdle

\* Authorization headers sent to the route: an access token of each user,
\* an access token whose exp has passed, and none
AnalyzeHeaders ==
    {Bearer(generateAccessToken(u, EnvSet)) : u \in ApiUsers}
        \cup {Bearer(Token("u1", "access", jwtSecret(EnvSet), TRUE)), NoHeader}

\* the route handler: analyzeCode, Review.create, res.json; a failed call
\* reaches errorHandler
analyzeHandler(agentOk) ==
    IF agentOk THEN [status |-> 200, error |-> "", stored |-> TRUE]
    ELSE [status |-> 500, error |-> "Failed to analyze code", stored |-> FALSE]

\* router.post('/analyze', authenticate, reviewRateLimiter,
\*             validateCodeReview, asyncHandler(...))
PostAnalyze ==
    \E header \in AnalyzeHeaders, body \in Bodies, agentOk \in BOOLEAN :
      LET auth == authenticate(header, EnvSet, ApiUsers)
          key == keyGenerator(auth.user, ClientIp)
          totalHits == hits[key] + 1
          checked == handleValidationErrors(validateCodeReview(body))
          handled == analyzeHandler(agentOk)
      IN IF auth.status # 0
         THEN /\ aLast' = Exchange(header, body, "authenticate", auth.status, auth.error,
                                    "", 0, FALSE, FALSE)
              /\ UNCHANGED <<hits, passed>>
         ELSE /\ hits[key] < ReviewMax + MaxOver
              /\ hits' = [hits EXCEPT ![key] = totalHits]
              /\ IF ~underLimit(totalHits, ReviewMax)
                 THEN /\ aLast' = Exchange(header, body, "reviewRateLimiter", 429,
                                            "Too many code review requests. Please try again later.",
                                            auth.user, totalHits, FALSE, FALSE)
                      /\ UNCHANGED passed
                 ELSE /\ passed' = [passed EXCEPT ![auth.user] = passed[auth.user] + 1]
                      /\ IF checked.status # 0
                         THEN aLast' = Exchange(header, body, "validateCodeReview", checked.status,
                                                checked.error, auth.user, totalHits, FALSE, FALSE)
                         ELSE aLast' = Exchange(header, body, "handler", handled.status,
                                                handled.error, auth.user, totalHits, TRUE,
                                                handled.stored)

\* windowMs has passed for a key: the store forgets its count
WindowElapses ==
    \E key \in LimiterKeys :
      /\ hits[key] > 0
      /\ hits' = [hits EXCEPT ![key] = 0]
      /\ passed' = [u \in ApiUsers |-> IF u = key THEN 0 ELSE passed[u]]
      /\ UNCHANGED aLast

AnalyzeNext ==
    \/ PostAnalyze /\ UNCHANGED <<coreVars, authVars, storeVars, serverVars, clientVars>>
    \/ WindowElapses /\ UNCHANGED <<coreVars, authVars, storeVars, serverVars, clientVars>>

SpecAnalyze == AnalyzeInit /\ [][AnalyzeNext]_vars

\* the requests the claim calls invalid
Invalid(body) ==
    \/ body.code.chars < 10
    \/ body.code.chars > 50000
    \/ body.language \notin {"javascript", "typescript", "python", "go", "java", "cpp", "c"}
    \/ body.skillLevel \notin {Undefined, "junior", "mid", "senior"}
    \/ /\ body.focusAreas.type # "absent"
       /\ \/ body.focusAreas.type # "array"
          \/ \E k \in 1..Len(body.focusAreas.value) :
                body.focusAreas.value[k] \notin {"bugs", "performance", "security", "clean-code", "all"}

\* C13: a POST /api/reviews/analyze request whose code is, after trimming,
\* shorter than 10 or longer than 50000 characters, whose language is not
\* one of the seven, whose skillLevel is present but not junior/mid/senior,
\* or whose focusAreas is not an array of the five areas never reaches the
\* handler: the agent is not called and no review is stored, and the
\* validation stage answers it 400 (a request stopped before validation,
\* by authenticate or by the rate limiter, has that stage's answer).
C13_InvalidRequestRejected ==
    (aLast.stage # "none" /\ Invalid(aLast.body)) =>
        /\ aLast.stage # "handler"
        /\ ~aLast.agentCalled
        /\ ~aLast.stored
        /\ (aLast.user # "" /\ aLast.hit <= 10) =>
              /\ aLast.stage = "validateCodeReview"
              /\ aLast.status = 400
              /\ aLast.error = "Validation failed"

\* nine characters of code padded with whitespace to twelve, everything
\* else valid, answered 400
C13_Witness ==
    /\ aLast.status = 400
    /\ aLast.body.code = Text(9, 3)
    /\ aLast.body.language = "python"
    /\ aLast.body.skillLevel = "mid"
    /\ aLast.body.focusAreas = Field("array", <<"bugs", "all">>)

IsRequestOf(u) ==
    /\ \E key \in LimiterKeys : hits'[key] = hits[key] + 1
    /\ aLast'.user = u

\* C14: within one window at most 10 analyze requests of one authenticated
\* user pass the review rate limiter; every further request of that user
\* is rejected with the 'Too many code review requests' error and reaches
\* neither validation nor the agent; the counts of different users are
\* independent.
C14_ReviewRateLimit ==
    /\ [](\A u \in ApiUsers : passed[u] <= 10)
    /\ []((aLast.user # "" /\ aLast.hit > 10) =>
            /\ aLast.stage = "reviewRateLimiter"
            /\ aLast.status = 429
            /\ aLast.error = "Too many code review requests. Please try again later."
            /\ ~aLast.agentCalled
            /\ ~aLast.stored)
    /\ [][\A u \in ApiUsers :
            IsRequestOf(u) =>
                /\ passed'[u] = IF passed[u] < 10 THEN passed[u] + 1 ELSE passed[u]
                /\ (passed[u] < 10) = (aLast'.stage \in {"validateCodeReview", "handler"})
                /\ \A v \in ApiUsers \ {u} : passed'[v] = passed[v] /\ hits'[v] = hits[v]]_vars

\* one user is over the limit, an invalid eleventh request of theirs was
\* stopped by the limiter, and the other user's first request is handled
C14_Witness ==
    /\ hits["u1"] > 10
    /\ passed["u1"] = 10
    /\ aLast.user = "u2"
    /\ aLast.hit = 1
    /\ aLast.stage = "handler"

\* ------------------------------------------------------------------------
\* Specification of authentication: login, refresh, logout, protected routes
\* ------------------------------------------------------------------------
AuthInit ==
    /\ CoreIdle
    /\ AnalyzeIdle
    /\ AuthIdle
    /\ StoreIdle
    /\ ServerIdle
    /\ ClientIdle

\* Authorization headers a client may send: none, another scheme, a token
\* it was issued (fresh or past its exp), a token signed with another
\* secret, and a token of a user whose row is gone
HeadersSent ==
    {NoHeader, BasicHeader}
        \cup {Bearer(t) : t \in issued}
        \cup {Bearer(Expire(t)) : t \in {i \in issued : i.type = "access"}}
        \cup {Bearer(Token("u1", "access", jwtSecret(EnvUnset), FALSE)),
              Bearer(Token(DeletedUser, "access", jwtSecret(EnvSet), FALSE))}

RefreshTokensSent ==
    {NoToken, Token("u1", "refresh", "forged", FALSE),
     Token(DeletedUser, "refresh", jwtRefreshSecret(EnvSet), FALSE)}
        \cup issued \cup {Expire(t) : t \in {i \in issued : i.type = "refresh"}}

\* router.<method>(path, authenticate, ...) of the review routes
ProtectedRequest ==
    \E route \in ProtectedRoutes, header \in HeadersSent :
      LET auth == authenticate(header, env, userDb)
      IN /\ sLast' = IF auth.status # 0
                     THEN AuthExchange(route, header, NoToken, "authenticate", auth.status,
                                       auth.error, "", 0, {})
                     ELSE AuthExchange(route, header, NoToken, "next", 0, "", auth.user, 0, {})
         /\ UNCHANGED <<userDb, authHits, refreshSeen, issued, loggedOut>>

\* router.get('/user', asyncHandler(...)): req.user is read though no
\* middleware of the route sets it
GetAuthUser ==
    \E header \in HeadersSent :
      LET thrown == errorHandlerNamed("TypeError", "Cannot read properties of undefined (reading 'id')")
      IN /\ sLast' = AuthExchange("authUser", header, NoToken, "handler", thrown.status,
                                  thrown.error, "", 0, {})
         /\ UNCHANGED <<userDb, authHits, refreshSeen, issued, loggedOut>>

\* router.post('/login', authRateLimiter, validateOAuth, asyncHandler(...))
PostLogin ==
    \E code \in {"", "oauth-code"}, provider \in {"google", "github", "gitlab"} :
      LET totalHits == authHits[ClientIp] + 1
          checked == handleValidationErrors(validateOAuth(code, provider))
          id == userIdOf(exchangeOAuthCode(code, provider))
          tokens == generateTokens(id, env)
      IN /\ authHits[ClientIp] < AuthMax + MaxOver
         /\ authHits' = [authHits EXCEPT ![ClientIp] = totalHits]
         /\ IF ~underLimit(totalHits, AuthMax)
            THEN /\ sLast' = AuthExchange("login", NoHeader, NoToken, "authRateLimiter", 429,
                                          "Too many authentication attempts. Please try again later.",
                                          "", totalHits, {})
                 /\ UNCHANGED <<userDb, issued, loggedOut>>
            ELSE IF checked.status # 0
            THEN /\ sLast' = AuthExchange("login", NoHeader, NoToken, "validateOAuth",
                                          checked.status, checked.error, "", totalHits, {})
                 /\ UNCHANGED <<userDb, issued, loggedOut>>
            ELSE /\ userDb' = userDb \cup {id}
                 /\ issued' = issued \cup tokens
                 /\ loggedOut' = loggedOut \ tokens
                 /\ sLast' = AuthExchange("login", NoHeader, NoToken, "handler", 200, "", id,
                                          totalHits, tokens)
         /\ UNCHANGED refreshSeen

\* router.post('/refresh', asyncHandler(...))
PostRefresh ==
    \E refreshToken \in RefreshTokensSent :
      LET seen == refreshSeen[ClientIp] + 1
          v == verify(refreshToken, env.JWT_REFRESH_SECRET)
          thrown == errorHandlerNamed(v, "")
          tokens == generateTokens(refreshToken.userId, env)
      IN /\ refreshSeen[ClientIp] < AuthMax + MaxOver
         /\ refreshSeen' = [refreshSeen EXCEPT ![ClientIp] = seen]
         /\ IF refreshToken = NoToken
            THEN /\ sLast' = AuthExchange("refresh", NoHeader, refreshToken, "handler", 400,
                                          "Refresh token is required", "", seen, {})
                 /\ UNCHANGED <<issued, loggedOut>>
            ELSE IF v # "decoded"
            THEN /\ sLast' = AuthExchange("refresh", NoHeader, refreshToken, "errorHandler",
                                          thrown.status, thrown.error, "", seen, {})
                 /\ UNCHANGED <<issued, loggedOut>>
            ELSE IF refreshToken.userId \notin userDb
            THEN /\ sLast' = AuthExchange("refresh", NoHeader, refreshToken, "handler", 401,
                                          "Invalid refresh token", "", seen, {})
                 /\ UNCHANGED <<issued, loggedOut>>
            ELSE /\ issued' = issued \cup tokens
                 /\ loggedOut' = loggedOut \ (tokens \ {refreshToken})
                 /\ sLast' = AuthExchange("refresh", NoHeader, refreshToken, "handler", 200, "",
                                          refreshToken.userId, seen, tokens)
         /\ UNCHANGED <<userDb, authHits>>

\* router.post('/logout', asyncHandler(...)): res.json({ message })
PostLogout ==
    /\ sLast' = AuthExchange("logout", NoHeader, NoToken, "handler", 200, "", "", 0, {})
    /\ loggedOut' = issued
    /\ UNCHANGED <<userDb, authHits, refreshSeen, issued>>

\* the 15 minutes of the authentication window have passed
AuthWindowElapses ==
    /\ authHits[ClientIp] > 0 \/ refreshSeen[ClientIp] > 0
    /\ authHits' = [authHits EXCEPT ![ClientIp] = 0]
    /\ refreshSeen' = [refreshSeen EXCEPT ![ClientIp] = 0]
    /\ UNCHANGED <<userDb, issued, loggedOut, sLast>>

AuthNext ==
    \/ ProtectedRequest /\ UNCHANGED <<coreVars, analyzeVars, storeVars, serverVars, clientVars>>
    \/ GetAuthUser /\ UNCHANGED <<coreVars, analyzeVars, storeVars, serverVars, clientVars>>
    \/ PostLogin /\ UNCHANGED <<coreVars, analyzeVars, storeVars, serverVars, clientVars>>
    \/ PostRefresh /\ UNCHANGED <<coreVars, analyzeVars, storeVars, serverVars, clientVars>>
    \/ PostLogout /\ UNCHANGED <<coreVars, analyzeVars, storeVars, serverVars, clientVars>>
    \/ AuthWindowElapses /\ UNCHANGED <<coreVars, analyzeVars, storeVars, serverVars, clientVars>>

SpecAuth == AuthInit /\ [][AuthNext]_vars

\* a header that carries 'Bearer <token>' with an access token that
\* verifies, is unexpired and names an existing user
ValidAccess(header) ==
    /\ header.scheme = "Bearer"
    /\ header.token.type = "access"
    /\ header.token.key = "env-secret"
    /\ ~header.token.expired
    /\ header.token.userId \in userDb

\* C15: on a protected review route (analyze, history, get by id, delete,
\* stats) the stages after authenticate run only for a request carrying
\* 'Bearer <token>' with an access token that verifies, is unexpired and
\* names an existing user, and then req.user is that user; a missing or
\* malformed header, an invalid token, an expired token or an unknown user
\* is answered 401 and nothing after authenticate runs.
C15_ProtectedRoutes ==
    sLast.route \in ProtectedRoutes =>
        IF ValidAccess(sLast.header)
        THEN /\ sLast.stage = "next"
             /\ sLast.user = sLast.header.token.userId
        ELSE /\ sLast.stage = "authenticate"
             /\ sLast.status = 401
             /\ sLast.user = ""

\* an existing user's own token, presented after its exp, is answered 401
C15_Witness ==
    /\ sLast.route = "deleteReview"
    /\ sLast.header.scheme = "Bearer"
    /\ sLast.header.token.userId \in userDb
    /\ sLast.header.token.key = "env-secret"
    /\ sLast.header.token.expired
    /\ sLast.status = 401
    /\ sLast.error = "Token expired"

\* C16: GET /api/auth/user is protected: with a valid access token it
\* answers 200 with the data of the token's user, without one it answers
\* 401.
C16_AuthUserProtected ==
    sLast.route = "authUser" =>
        IF ValidAccess(sLast.header)
        THEN sLast.status = 200 /\ sLast.user = sLast.header.token.userId
        ELSE sLast.status = 401

\* C17: logout revokes tokens: after a logout a request to a protected
\* route bearing an access token issued before the logout is rejected, and
\* a refresh with a refresh token issued before the logout yields no new
\* tokens.
C17_LogoutRevokes ==
    /\ (sLast.route \in ProtectedRoutes /\ sLast.header.token \in loggedOut) =>
            sLast.stage = "authenticate"
    /\ (sLast.route = "refresh" /\ sLast.refreshToken \in loggedOut) =>
            sLast.tokens = {}

\* C19: each authentication endpoint admits at most 5 attempts per IP per
\* window: the 6th login request and the 6th refresh request of the window
\* are rejected with the 'Too many authentication attempts' error.
C19_AuthRateLimit ==
    (sLast.route \in {"login", "refresh"} /\ sLast.hit > 5) =>
        /\ sLast.status = 429
        /\ sLast.error = "Too many authentication attempts. Please try again later."

ConfigInit ==
    /\ CoreIdle
    /\ AnalyzeIdle
    /\ AuthIdle
    /\ StoreIdle
    /\ env \in {EnvSet, EnvUnset}
    /\ rStats = NoStats
    /\ LoginIdle
    /\ ClientIdle

SpecConfig == ConfigInit /\ [][AuthNext]_vars

\* C24: issued tokens are accepted by their verifiers in every
\* configuration: an access token returned by login or refresh passes
\* authenticate, and a refresh token returned by them passes POST /refresh,
\* while the token is unexpired and its user exists, with the secrets set in
\* the environment and with them unset.
C24_IssuedTokensAccepted ==
    /\ (/\ sLast.route \in ProtectedRoutes
        /\ sLast.header.scheme = "Bearer"
        /\ sLast.header.token \in issued
        /\ sLast.header.token.type = "access"
        /\ ~sLast.header.token.expired
        /\ sLast.header.token.userId \in userDb) =>
            (sLast.stage = "next" /\ sLast.user = sLast.header.token.userId)
    /\ (/\ sLast.route = "refresh"
        /\ sLast.refreshToken \in issued
        /\ sLast.refreshToken.type = "refresh"
        /\ ~sLast.refreshToken.expired
        /\ sLast.refreshToken.userId \in userDb) =>
            (sLast.status = 200 /\ sLast.tokens # {})

\* ------------------------------------------------------------------------
\* Specification of the review store: create, read, delete, history
\* ------------------------------------------------------------------------
StoreInit ==
    /\ CoreIdle
    /\ AnalyzeIdle
    /\ AuthIdle
    /\ StoreIdle
    /\ ServerIdle
    /\ ClientIdle

\* ReviewResults the agent returns: one whose only issue costs half
\* points, one with two different issues
HalfPointResult ==
    [score |-> score(<<Issue(3, "info", "bug", "looseEquality")>>, Absent),
     issues |-> <<Issue(3, "info", "bug", "looseEquality")>>,
     improvedCode |-> "improved", mentorExplanation |-> "narrative",
     followUpQuestions |-> <<"q1", "q2">>]

DegradedResult ==
    [score |-> score(<<Issue(12, "error", "security", "sqlInjection"),
                       Issue(3, "info", "bug", "looseEquality")>>, Absent),
     issues |-> <<Issue(12, "error", "security", "sqlInjection"),
                  Issue(3, "info", "bug", "looseEquality")>>,
     improvedCode |-> "", mentorExplanation |-> DegradedExplanation,
     followUpQuestions |-> <<>>]

\* analyze calls: a validated body and what the agent returns for it; the
\* second body leaves focusAreas and skillLevel to the defaults
Submissions ==
    {[body |-> ValidBody, reviewResult |-> HalfPointResult],
     [body |-> Body(Text(12, 0), "go", Undefined, AbsentField), reviewResult |-> DegradedResult]}

\* a handler that stores the review whatever became of the call
reviewsAfterAnyCall(table, row, outcome) == Append(table, row)

\* the table after the handler: analyzeCode is awaited before Review.create,
\* so a call that throws leaves the handler before the insert
reviewsAfter(table, row, outcome) == IF outcome = "ok" THEN Append(table, row) ELSE table

\* the handler of POST /analyze for an authenticated, validated request of
\* userId: analyzeCode, Review.create, res.json; an Error thrown by
\* analyzeCode is answered by errorHandler
CreateReview ==
    \E userId \in ApiUsers, sub \in Submissions, outcome \in {"ok"} \cup CallFailures :
      LET id == Len(made) + 1
          body == sub.body
          reviewResult == sub.reviewResult
          thrown == errorHandler(analyzeCodeError(outcome))
      IN /\ Len(made) < MaxReviews
         /\ rows' = reviewsAfter(rows, create(id, userId, body, reviewResult, clock), outcome)
         /\ IF outcome = "ok"
            THEN /\ made' = Append(made, Made(userId, focusAreasOf(body), reviewResult))
                 /\ rLast' = StoreExchange("analyze", userId, id, AbsentQuery, AbsentQuery, 200, "",
                                           focusAreasOf(body), reviewResult, <<>>)
            ELSE /\ rLast' = StoreExchange("analyze", userId, 0, AbsentQuery, AbsentQuery,
                                           thrown.status, thrown.body.error, <<>>, NoResult, <<>>)
                 /\ UNCHANGED made
         /\ UNCHANGED clock

\* router.get('/:id', ...) for the authenticated userId
GetReview ==
    \E userId \in ApiUsers, id \in 1..(Len(made) + 1) :
      LET found == findById(rows, id, userId)
          review == CHOOSE row \in found : TRUE
      IN /\ rLast' = IF found = {}
                     THEN StoreExchange("getReview", userId, id, AbsentQuery, AbsentQuery, 404,
                                        "Review not found", <<>>, NoResult, <<>>)
                     ELSE StoreExchange("getReview", userId, id, AbsentQuery, AbsentQuery, 200, "",
                                        stringsFromJson(parse(review.focus_areas)),
                                        resultFromJson(parse(review.review_result)), <<>>)
         /\ UNCHANGED <<rows, clock, made>>

\* router.delete('/:id', ...) for the authenticated userId
DeleteReview ==
    \E userId \in ApiUsers, id \in 1..(Len(made) + 1) :
      /\ IF findById(rows, id, userId) = {}
         THEN /\ rLast' = StoreExchange("deleteReview", userId, id, AbsentQuery, AbsentQuery, 404,
                                        "Review not found", <<>>, NoResult, <<>>)
              /\ UNCHANGED rows
         ELSE /\ rows' = delete(rows, id, userId)
              /\ rLast' = StoreExchange("deleteReview", userId, id, AbsentQuery, AbsentQuery, 200, "",
                                        <<>>, NoResult, <<>>)
      /\ UNCHANGED <<clock, made>>

LimitsSent ==
    {AbsentQuery, Query("int", 0), Query("int", 1), Query("int", 100), Query("int", 101),
     Query("int", 0 - 1)}

OffsetsSent == {AbsentQuery, Query("int", 1), Query("int", 0 - 1)}

\* router.get('/history', ...) for the authenticated userId
GetHistory ==
    \E userId \in ApiUsers :
      LET stats == statsOf(getStats(rows, userId))
      IN \E limitSent \in LimitsSent, offsetSent \in OffsetsSent :
           LET limit == orElse(parseInt(limitSent), DefaultLimit)
               offset == orElse(parseInt(offsetSent), 0)
           IN /\ IF limit > MaxLimit
                 THEN /\ rLast' = StoreExchange("history", userId, 0, limitSent, offsetSent, 400,
                                                "Limit cannot exceed 100", <<>>, NoResult, <<>>)
                      /\ rStats' = NoStats
                 ELSE IF limit < 1 \/ offset < 0
                 THEN /\ rLast' = StoreExchange("history", userId, 0, limitSent, offsetSent, 400,
                                                "Invalid limit or offset", <<>>, NoResult, <<>>)
                      /\ rStats' = NoStats
                 ELSE /\ \E ordered \in OrdersByCreatedAtDesc(rows, userId) :
                           rLast' = StoreExchange("history", userId, 0, limitSent, offsetSent, 200,
                                                  "", <<>>, NoResult,
                                                  limitOffset(ordered, limit, offset))
                      /\ rStats' = stats
              /\ UNCHANGED <<rows, clock, made>>

\* router.get('/stats/summary', ...) for the authenticated userId
GetStats ==
    \E userId \in ApiUsers : \E ordered \in OrdersByCreatedAtDesc(rows, userId) :
      LET recent == limitOffset(ordered, RecentLimit, 0)
      IN /\ rLast' = StoreExchange("stats", userId, 0, AbsentQuery, AbsentQuery, 200, "", <<>>,
                                   NoResult, [i \in 1..Len(recent) |-> summaryOf(recent[i])])
         /\ rStats' = statsOf(getStats(rows, userId))
         /\ UNCHANGED <<rows, clock, made>>

\* a second passes
Tick ==
    /\ clock < MaxClock
    /\ clock' = clock + 1
    /\ UNCHANGED <<rows, made, rLast>>

StoreNext ==
    \/ CreateReview /\ rStats' = NoStats /\ UNCHANGED <<coreVars, analyzeVars, authVars, env, loginVars, clientVars>>
    \/ GetReview /\ rStats' = NoStats /\ UNCHANGED <<coreVars, analyzeVars, authVars, env, loginVars, clientVars>>
    \/ DeleteReview /\ rStats' = NoStats /\ UNCHANGED <<coreVars, analyzeVars, authVars, env, loginVars, clientVars>>
    \/ GetHistory /\ UNCHANGED <<coreVars, analyzeVars, authVars, env, loginVars, clientVars>>
    \/ GetStats /\ UNCHANGED <<coreVars, analyzeVars, authVars, env, loginVars, clientVars>>
    \/ Tick /\ UNCHANGED <<coreVars, analyzeVars, authVars, serverVars, clientVars>>

SpecStore == StoreInit /\ [][StoreNext]_vars

\* C18: storing and reading back is a round trip: for every review created
\* by POST /analyze, a later GET /:id by the same user, as long as the
\* review is not deleted, answers 200 with the reviewResult and focusAreas
\* of the analyze call (same scores, same issues in the same order).
C18_StoreRoundTrip ==
    rLast.route = "getReview" =>
        /\ (\E row \in Range(rows) : row.id = rLast.id /\ row.user_id = rLast.user) =>
                rLast.status = 200
        /\ rLast.status = 200 =>
                /\ made[rLast.id].user = rLast.user
                /\ rLast.reviewResult = made[rLast.id].reviewResult
                /\ rLast.focusAreas = made[rLast.id].focusAreas

\* the second review of the table, with two issues and half-point scores
\* and the default focus areas, read back after the first was deleted
C18_Witness ==
    /\ rLast.route = "getReview"
    /\ rLast.status = 200
    /\ rLast.id = 2
    /\ Len(rows) = 1
    /\ Len(rLast.reviewResult.issues) = 2
    /\ \E d \in Dimensions : rLast.reviewResult.score.dims[d] % 2 = 1
    /\ rLast.focusAreas = <<"bugs", "performance", "security", "clean-code">>

\* C20: GET /history returns at most limit of the caller's reviews, newest
\* first, after skipping offset, limit defaulting to 20 and offset to 0;
\* every request whose limit is above 100 or below 1, or whose offset is
\* negative, is answered 400 and returns no reviews.
C20_History ==
    rLast.route = "history" =>
        LET limit == IF rLast.limit.kind = "absent" THEN 20 ELSE rLast.limit.n
            offset == IF rLast.offset.kind = "absent" THEN 0 ELSE rLast.offset.n
            mine == {row \in Range(rows) : row.user_id = rLast.user}
            page == rLast.reviews
            left == Cardinality(mine) - offset
        IN IF limit > 100 \/ limit < 1 \/ offset < 0
           THEN rLast.status = 400 /\ page = <<>>
           ELSE /\ rLast.status = 200
                /\ Len(page) = (IF left < 0 THEN 0 ELSE IF left < limit THEN left ELSE limit)
                /\ \A k \in 1..Len(page) : page[k] \in mine
                /\ \A k \in 1..(Len(page) - 1) :
                      page[k].created_at >= page[k + 1].created_at /\ page[k] # page[k + 1]
                /\ page # <<>> =>
                      Cardinality({row \in mine : row.created_at > page[1].created_at}) <= offset

\* the rows of the table that belong to other users than u
RowsOfOthers(table, u) == SelectSeq(table, LAMBDA row : row.user_id # u)

\* the overall scores, as the analyze calls returned them, of the stored
\* reviews of u
OwnScores(u) ==
    [i \in 1..Len(SelectSeq(rows, LAMBDA row : row.user_id = u)) |->
        made[SelectSeq(rows, LAMBDA row : row.user_id = u)[i].id].reviewResult.score.overall]

RECURSIVE Sum(_)
Sum(list) == IF list = <<>> THEN 0 ELSE Head(list) + Sum(Tail(list))

\* the mean of a list of whole numbers, rounded half up; 0 for none
RoundedAverage(list) ==
    IF list = <<>> THEN 0 ELSE (2 * Sum(list) + Len(list)) \div (2 * Len(list))

\* C22: no request returns, counts or deletes a review created by another
\* user: GET or DELETE of another user's review id is answered 404 and
\* leaves that review stored, every request leaves the reviews of the other
\* users as they were, and a user's history and stats are computed from
\* that user's reviews only.
C22_UserIsolation ==
    /\ []((rLast.route \in {"getReview", "deleteReview"} /\ rLast.id <= Len(made)
              /\ made[rLast.id].user # rLast.user) => rLast.status = 404)
    /\ []((rLast.route = "getReview" /\ rLast.status = 200) =>
              (made[rLast.id].user = rLast.user
               /\ rLast.reviewResult = made[rLast.id].reviewResult))
    /\ [][RowsOfOthers(rows', rLast'.user) = RowsOfOthers(rows, rLast'.user)]_vars
    /\ [](rLast.route \in {"history", "stats"} =>
              \A k \in 1..Len(rLast.reviews) :
                  \E row \in Range(rows) :
                      row.id = rLast.reviews[k].id /\ row.user_id = rLast.user)
    /\ []((rLast.route \in {"history", "stats"} /\ rLast.status = 200) =>
              /\ rStats.totalReviews = Len(OwnScores(rLast.user))
              /\ rStats.averageScore = RoundedAverage(OwnScores(rLast.user))
              /\ rStats.languagesUsed =
                     Cardinality({row.language : row \in {r \in Range(rows) : r.user_id = rLast.user}}))

\* with a review of each user stored, the stats of u2 count one review and
\* its score alone, and the scores of the two reviews differ
C22_Witness ==
    /\ rLast.route = "stats"
    /\ rLast.user = "u2"
    /\ Len(rows) = 2
    /\ rows[1].user_id = "u1"
    /\ rows[2].user_id = "u2"
    /\ rStats.totalReviews = 1
    /\ made[1].reviewResult.score.overall # made[2].reviewResult.score.overall
    /\ rStats.averageScore = made[2].reviewResult.score.overall

\* what a user sees of the store: the reviews in the order of the history
\* and the statistics
ViewOf(table, u) ==
    [history |-> OrdersByCreatedAtDesc(table, u), stats |-> statsOf(getStats(table, u))]

\* C23: POST /analyze stores exactly one review for a request whose agent
\* call succeeded and none for a request whose call failed (connection
\* refused, timeout, agent error response): on failure the client gets an
\* error response and the stored reviews, the history and the stats of
\* every user are unchanged.
C23_StoredOnSuccessOnly ==
    [][(rLast'.route = "analyze" /\ rLast' # rLast) =>
          IF rLast'.status = 200
          THEN /\ Len(rows') = Len(rows) + 1
               /\ SubSeq(rows', 1, Len(rows)) = rows
               /\ rows'[Len(rows')].id = rLast'.id
               /\ rows'[Len(rows')].user_id = rLast'.user
               /\ \A row \in Range(rows) : row.id # rLast'.id
          ELSE /\ rLast'.status = 500
               /\ rLast'.error \in {analyzeCodeError(f) : f \in CallFailures}
               /\ rows' = rows
               /\ \A u \in ApiUsers : ViewOf(rows', u) = ViewOf(rows, u)]_vars

\* a call of u1 that timed out, with a review of u1 stored before it
C23_Witness ==
    /\ rLast.route = "analyze"
    /\ rLast.user = "u1"
    /\ rLast.status = 500
    /\ rLast.error = "Failed to analyze code"
    /\ Len(rows) = 1
    /\ rows[1].user_id = "u1"

\* ------------------------------------------------------------------------
\* Specification of the frontend pages: the dashboard and the history
\* ------------------------------------------------------------------------
\* how many analyze calls of one dashboard are followed at the same time
MaxInFlight == 2

\* DashboardPage mounts
MountDashboard ==
    /\ dashCode' = Text(0, 0)
    /\ dashLoading' = FALSE
    /\ dashResult' = NoResult
    /\ activeTab' = "issues"
    /\ settings' = DefaultSettings

DashInit ==
    /\ CoreIdle
    /\ AnalyzeIdle
    /\ AuthIdle
    /\ StoreIdle
    /\ ServerIdle
    /\ ClientIdle

\* what the editor may hold: nothing, whitespace only, code
EditorTexts == {Text(0, 0), Text(0, 3), Text(12, 2)}

\* !code.trim()
blank(text) == length(trim(text)) = 0

\* a submit button that stays enabled while loading
buttonDisabledByBlankOnly(isLoading, disabled) == disabled

\* Sidebar: <button onClick={handleSubmit} disabled={loading || disabled}>
buttonDisabled(isLoading, disabled) == isLoading \/ disabled

\* Sidebar.handleSubmit (if (disabled) return, disabled = !code.trim()) and
\* DashboardPage.handleSubmit (if (!code.trim()) { alert(...); return }):
\* whether submitCodeReview is called
submits(text) == ~blank(text)

DashboardTabs == {"issues", "improved", "explanation"}

\* CodeEditor.handleEditorChange: the editor is rendered while reviewResult
\* is null and is read-only while loading
EditCode ==
    \E text \in EditorTexts :
      /\ shown = "dashboard"
      /\ dashResult = NoResult
      /\ ~dashLoading
      /\ dashCode' = text
      /\ UNCHANGED <<shown, dashLoading, dashResult, activeTab, settings, inFlight, settled,
                     hLoading, hReviews>>

\* handleFocusAreaToggle(area)
toggle(list, area) ==
    IF area \in Range(list) THEN SelectSeq(list, LAMBDA a : a # area) ELSE Append(list, area)

\* the selects and checkboxes of the Sidebar, disabled while loading
ChangeSettings ==
    /\ shown = "dashboard"
    /\ ~dashLoading
    /\ \/ \E l \in SupportedLanguages : settings' = [settings EXCEPT !.language = l]
       \/ \E k \in SkillLevels : settings' = [settings EXCEPT !.skillLevel = k]
       \/ \E area \in validAreas :
            settings' = [settings EXCEPT !.focusAreas = toggle(settings.focusAreas, area)]
    /\ UNCHANGED <<shown, dashCode, dashLoading, dashResult, activeTab, inFlight, settled,
                   hLoading, hReviews>>

\* a click on 'Analyze Code': handleSubmit up to the await of submitCodeReview
ClickAnalyze ==
    /\ shown = "dashboard"
    /\ ~buttonDisabled(dashLoading, blank(dashCode))
    /\ Len(inFlight) < MaxInFlight
    /\ IF submits(dashCode)
       THEN /\ dashLoading' = TRUE
            /\ dashResult' = NoResult
            /\ activeTab' = "issues"
            /\ inFlight' = Append(inFlight, Body(dashCode, settings.language, settings.skillLevel,
                                                 Field("array", settings.focusAreas)))
       ELSE UNCHANGED <<dashLoading, dashResult, activeTab, inFlight>>
    /\ UNCHANGED <<shown, dashCode, settings, settled, hLoading, hReviews>>

\* submitCodeReview resolves: setReviewResult(result), finally
\* setLoading(false) (the id and createdAt of the answer are left out)
AnalyzeSucceeds ==
    \E answer \in {HalfPointResult, DegradedResult} :
      /\ shown = "dashboard"
      /\ inFlight # <<>>
      /\ dashResult' = answer
      /\ dashLoading' = FALSE
      /\ inFlight' = Tail(inFlight)
      /\ settled' = "ok"
      /\ UNCHANGED <<shown, dashCode, activeTab, settings, hLoading, hReviews>>

\* submitCodeReview rejects: alert(...), finally setLoading(false)
AnalyzeFails ==
    /\ shown = "dashboard"
    /\ inFlight # <<>>
    /\ dashLoading' = FALSE
    /\ inFlight' = Tail(inFlight)
    /\ settled' = "failed"
    /\ UNCHANGED <<shown, dashCode, dashResult, activeTab, settings, hLoading, hReviews>>

\* the tab buttons, rendered when reviewResult is set
SelectTab ==
    \E tab \in DashboardTabs :
      /\ shown = "dashboard"
      /\ dashResult # NoResult
      /\ activeTab' = tab
      /\ UNCHANGED <<shown, dashCode, dashLoading, dashResult, settings, inFlight, settled,
                     hLoading, hReviews>>

\* 'History': window.location.href = '/history' loads the page anew, which
\* ends the calls of the dashboard; HistoryPage starts with loading true
OpenHistory ==
    /\ shown = "dashboard"
    /\ shown' = "history"
    /\ MountDashboard
    /\ inFlight' = <<>>
    /\ settled' = "none"
    /\ hLoading' = TRUE
    /\ hReviews' = <<>>

\* the row of a review in the table: review.reviewResult.score.overall is
\* read for each
renderRow(review) == IF "reviewResult" \in DOMAIN review THEN "row" ELSE "TypeError"

\* data.reviews of GET /history: the rows Review.findByUserId returns
HistoryLists ==
    {<<>>,
     <<create(1, "u1", ValidBody, HalfPointResult, 1)>>,
     <<create(2, "u1", ValidBody, DegradedResult, 2), create(1, "u1", ValidBody, HalfPointResult, 1)>>}

\* loadHistory after the await: setReviews(data.reviews) or the alert of the
\* catch, finally setLoading(false); an error thrown while rendering the
\* rows leaves nothing of the page
LoadHistory ==
    \E ok \in BOOLEAN, list \in HistoryLists :
      /\ shown = "history"
      /\ hLoading
      /\ hLoading' = FALSE
      /\ hReviews' = IF ok THEN list ELSE hReviews
      /\ shown' = IF \E i \in 1..Len(hReviews') : renderRow(hReviews'[i]) = "TypeError"
                  THEN "blank" ELSE "history"
      /\ UNCHANGED <<dashCode, dashLoading, dashResult, activeTab, settings, inFlight, settled>>

\* navigate('/dashboard') of the history page, or the dashboard opened by
\* its address: DashboardPage mounts
BackToDashboard ==
    /\ shown # "dashboard"
    /\ ~hLoading
    /\ shown' = "dashboard"
    /\ MountDashboard
    /\ hReviews' = <<>>
    /\ UNCHANGED <<inFlight, settled, hLoading>>

DashNext ==
    \/ ChangeSettings /\ UNCHANGED <<coreVars, analyzeVars, authVars, storeVars, serverVars, localStorage, icVars, providerVars>>
    \/ EditCode /\ UNCHANGED <<coreVars, analyzeVars, authVars, storeVars, serverVars, localStorage, icVars, providerVars>>
    \/ ClickAnalyze /\ UNCHANGED <<coreVars, analyzeVars, authVars, storeVars, serverVars, localStorage, icVars, providerVars>>
    \/ AnalyzeSucceeds /\ UNCHANGED <<coreVars, analyzeVars, authVars, storeVars, serverVars, localStorage, icVars, providerVars>>
    \/ AnalyzeFails /\ UNCHANGED <<coreVars, analyzeVars, authVars, storeVars, serverVars, localStorage, icVars, providerVars>>
    \/ SelectTab /\ UNCHANGED <<coreVars, analyzeVars, authVars, storeVars, serverVars, localStorage, icVars, providerVars>>
    \/ OpenHistory /\ UNCHANGED <<coreVars, analyzeVars, authVars, storeVars, serverVars, localStorage, icVars, providerVars>>
    \/ LoadHistory /\ UNCHANGED <<coreVars, analyzeVars, authVars, storeVars, serverVars, localStorage, icVars, providerVars>>
    \/ BackToDashboard /\ UNCHANGED <<coreVars, analyzeVars, authVars, storeVars, serverVars, localStorage, icVars, providerVars>>

SpecDashboard == DashInit /\ [][DashNext]_vars

\* JSON.stringify(review) of a row of the history
rowToJson(review) ==
    JObj(<<Pair("id", JNum(2 * review.id)), Pair("user_id", JStr(review.user_id)),
           Pair("language", JStr(review.language)),
           Pair("focus_areas", JStr(review.focus_areas)),
           Pair("review_result", JStr(review.review_result)),
           Pair("created_at", JNum(2 * review.created_at))>>)

\* handleReviewClick(review): localStorage.setItem('selectedReview', ...)
\* before navigate('/dashboard')
handleReviewClick(storage, review) ==
    [storage EXCEPT !["selectedReview"] = stringify(rowToJson(review))]

\* reviewResult of the DashboardPage mounted by the navigation:
\* useState(null), no key of localStorage is read
mountedReviewResult(storage) == NoResult

\* C21: clicking a past review on the History page reopens it: every review
\* the page has loaded is shown as a row to click, and after the click and
\* the navigation the dashboard's reviewResult is the stored result of that
\* review.
C21_ReopenFromHistory ==
    \A i \in 1..Len(hReviews) :
        /\ renderRow(hReviews[i]) = "row"
        /\ mountedReviewResult(handleReviewClick(localStorage, hReviews[i]))
               = resultFromJson(parse(hReviews[i].review_result))

\* C29: on the dashboard at most one analyze request is in flight; while
\* one is in flight loading is true and reviewResult is null; when it
\* settles loading becomes false, reviewResult is set on success and stays
\* null on failure; a submit with blank code sends no request.
C29_OneRequestInFlight ==
    /\ [](Len(inFlight) <= 1)
    /\ [](inFlight # <<>> => (dashLoading /\ dashResult = NoResult))
    /\ [][(shown' = "dashboard" /\ Len(inFlight') < Len(inFlight)) =>
            /\ ~dashLoading'
            /\ settled' \in {"ok", "failed"}
            /\ (settled' = "ok") = (dashResult' # NoResult)]_vars
    /\ [][blank(dashCode) => Len(inFlight') <= Len(inFlight)]_vars

\* a request of the dashboard has failed: the editor is back, no result
C29_Witness ==
    /\ shown = "dashboard"
    /\ settled = "failed"
    /\ inFlight = <<>>
    /\ ~dashLoading
    /\ dashResult = NoResult
    /\ ~blank(dashCode)

\* ---------------------------------------------------------------------
\* Specification of the interceptors of the api instance (services/api.js)
\* ---------------------------------------------------------------------

\* a request is sent at most this often (the original and its replays)
MaxSends == 3

\* localStorage.setItem(key, text) of a plain string
item(text) == <<Tok("text", text)>>

\* the user as setUser stores it
StoredUser == stringify(JObj(<<Pair("id", JStr("u1")), Pair("email", JStr("u1@mail"))>>))

\* localStorage after a login
SessionStorage ==
    [EmptyStorage EXCEPT !["accessToken"] = item("at0"), !["refreshToken"] = item("rt0"),
                         !["user"] = StoredUser]

\* the access token POST /api/auth/refresh answers to the refresh call of a request
NewToken == [r \in Requests |-> IF r = "r1" THEN "at1" ELSE "at2"]

\* statuses of the answers that reject: 0 stands for an error without response
ErrorStatuses == {0, 401, 500}

InterceptorInit ==
    /\ CoreIdle
    /\ AnalyzeIdle
    /\ AuthIdle
    /\ StoreIdle
    /\ ServerIdle
    /\ DashIdle
    /\ InterceptorIdle
    /\ ProviderIdle
    /\ localStorage \in {SessionStorage, EmptyStorage}

\* the request interceptor: Authorization is set from the stored access
\* token when there is one, left as it is otherwise
withToken(storage, auth) ==
    IF storage["accessToken"] # <<>> THEN storage["accessToken"] ELSE auth

\* localStorage.removeItem of accessToken, refreshToken and user
removeSession(storage) ==
    [storage EXCEPT !["accessToken"] = <<>>, !["refreshToken"] = <<>>, !["user"] = <<>>]

\* the response interceptor refreshes on every 401
handlesAlways(status, retry) == status = 401
\* error.response?.status === 401 && !originalRequest._retry
handles(status, retry) == status = 401 /\ ~retry

\* a caller sends a request through the api instance
Send(r) ==
    /\ nav # "login"
    /\ req[r].pc = "idle"
    /\ req' = [req EXCEPT ![r] = Request("sent", FALSE, withToken(localStorage, <<>>), 0, 1, 0)]
    /\ UNCHANGED <<localStorage, nav>>

\* the request or its replay is answered with 2xx: response => response
Respond200(r) ==
    /\ nav # "login"
    /\ req[r].pc \in {"sent", "replayed"}
    /\ req' = [req EXCEPT ![r].pc = "resolved", ![r].status = 200]
    /\ UNCHANGED <<localStorage, nav>>

\* the request or its replay fails: the error handler of the response interceptor
RespondError(r) ==
    /\ nav # "login"
    /\ req[r].pc \in {"sent", "replayed"}
    /\ \E status \in ErrorStatuses :
           IF handles(status, req[r].retry)
           THEN IF localStorage["refreshToken"] = <<>>
                THEN /\ req' = [req EXCEPT ![r].pc = "rejected", ![r].retry = TRUE,
                                           ![r].status = status]
                     /\ localStorage' = removeSession(localStorage)
                     /\ nav' = "leaving"
                ELSE /\ req[r].sends < MaxSends
                     /\ req' = [req EXCEPT ![r].pc = "refreshing", ![r].retry = TRUE,
                                           ![r].status = status,
                                           ![r].refreshCalls = @ + 1]
                     /\ UNCHANGED <<localStorage, nav>>
           ELSE /\ req' = [req EXCEPT ![r].pc = "rejected", ![r].status = status]
                /\ UNCHANGED <<localStorage, nav>>

\* the refresh call of a request succeeds: the new token is stored and the
\* request is replayed through the request interceptor
RefreshSucceeds(r) ==
    /\ nav # "login"
    /\ req[r].pc = "refreshing"
    /\ localStorage' = [localStorage EXCEPT !["accessToken"] = item(NewToken[r])]
    /\ req' = [req EXCEPT ![r].pc = "replayed",
                          ![r].auth = withToken(localStorage', item(NewToken[r])),
                          ![r].sends = @ + 1]
    /\ UNCHANGED nav

\* the refresh call of a request fails: the catch block
RefreshFails(r) ==
    /\ nav # "login"
    /\ req[r].pc = "refreshing"
    /\ localStorage' = removeSession(localStorage)
    /\ nav' = "leaving"
    /\ req' = [req EXCEPT ![r].pc = "rejected"]

\* the navigation window.location.href = '/login' started replaces the
\* document: what is still in flight is never answered
Unload ==
    /\ nav = "leaving"
    /\ nav' = "login"
    /\ req' = [r \in Requests |->
                 IF req[r].pc \in {"sent", "refreshing", "replayed"}
                 THEN [req[r] EXCEPT !.pc = "aborted"] ELSE req[r]]
    /\ UNCHANGED localStorage

InterceptorNext ==
    \/ \E r \in Requests : Send(r) /\ UNCHANGED <<coreVars, analyzeVars, authVars, storeVars, serverVars, dashVars, providerVars>>
    \/ \E r \in Requests : Respond200(r) /\ UNCHANGED <<coreVars, analyzeVars, authVars, storeVars, serverVars, dashVars, providerVars>>
    \/ \E r \in Requests : RespondError(r) /\ UNCHANGED <<coreVars, analyzeVars, authVars, storeVars, serverVars, dashVars, providerVars>>
    \/ \E r \in Requests : RefreshSucceeds(r) /\ UNCHANGED <<coreVars, analyzeVars, authVars, storeVars, serverVars, dashVars, providerVars>>
    \/ \E r \in Requests : RefreshFails(r) /\ UNCHANGED <<coreVars, analyzeVars, authVars, storeVars, serverVars, dashVars, providerVars>>
    \/ Unload /\ UNCHANGED <<coreVars, analyzeVars, authVars, storeVars, serverVars, dashVars, providerVars>>

SpecInterceptor == InterceptorInit /\ [][InterceptorNext]_vars

\* the request has left the interceptors
Left(r) == req[r].pc \in {"resolved", "rejected", "aborted"}

\* C26: the response interceptor handles a 401 of a request at most once:
\* a request has at most one refresh call and is sent at most twice, the
\* second time only after its refresh call and with the new access token,
\* and the answer to the replay, a 401 included, settles the request
\* without another refresh call.
C26_RefreshAtMostOnce ==
    /\ [](\A r \in Requests :
            /\ req[r].refreshCalls <= 1
            /\ req[r].sends <= 2
            /\ (req[r].sends = 2 => (req[r].refreshCalls = 1 /\ req[r].retry))
            /\ (req[r].pc = "replayed" => req[r].auth = item(NewToken[r])))
    /\ [][\A r \in Requests :
            (req[r].pc = "replayed" /\ req'[r] # req[r]) =>
                /\ Left(r)'
                /\ req'[r].refreshCalls = req[r].refreshCalls
                /\ req'[r].sends = req[r].sends
                /\ (req'[r].pc # "aborted" /\ req'[r].status = 401 =>
                        req'[r].pc = "rejected")]_vars

\* a replay has failed with 401 and was rejected after one refresh call
C26_Witness ==
    \E r \in Requests :
        /\ req[r].pc = "rejected"
        /\ req[r].status = 401
        /\ req[r].sends = 2
        /\ req[r].refreshCalls = 1

\* C27: when every request has settled, localStorage does not hold an
\* accessToken while refreshToken and user are removed.
C27_SessionAllOrNothing ==
    (\A r \in Requests : Left(r)) =>
        ~ (/\ localStorage["accessToken"] # <<>>
           /\ localStorage["refreshToken"] = <<>>
           /\ localStorage["user"] = <<>>)

\* ---------------------------------------------------------------------
\* Specification of the AuthProvider (contexts/AuthContext.jsx)
\* ---------------------------------------------------------------------

\* calls of authService awaited at once
MaxPending == 2

Providers == {"google", "github"}

\* the user POST /api/auth/login answers for a provider
ResponseUser ==
    [p \in Providers |->
        IF p = "google"
        THEN JObj(<<Pair("id", JStr("u1")), Pair("email", JStr("u1@mail"))>>)
        ELSE JObj(<<Pair("id", JStr("u2")), Pair("email", JStr("u2@mail"))>>)]

\* a call awaited
Call(op, provider) == [op |-> op, provider |-> provider]

\* getUser(): JSON.parse of the stored text, null when there is none
getUser(storage) == IF storage["user"] # <<>> THEN parse(storage["user"]) ELSE Null

\* clearTokens() leaving the stored user
clearTokensOnly(storage) ==
    [storage EXCEPT !["accessToken"] = <<>>, !["refreshToken"] = <<>>]
\* clearTokens()
clearTokens(storage) ==
    [storage EXCEPT !["accessToken"] = <<>>, !["refreshToken"] = <<>>, !["user"] = <<>>]

\* setToken, setRefreshToken and setUser of a login response
storeLogin(storage, provider) ==
    [storage EXCEPT !["accessToken"] = item("at0"), !["refreshToken"] = item("rt0"),
                    !["user"] = stringify(ResponseUser[provider])]

\* the sequence without its i-th element
without(seq, i) == SubSeq(seq, 1, i - 1) \o SubSeq(seq, i + 1, Len(seq))

ProviderInit ==
    /\ CoreIdle
    /\ AnalyzeIdle
    /\ AuthIdle
    /\ StoreIdle
    /\ ServerIdle
    /\ DashIdle
    /\ InterceptorIdle
    /\ ProviderIdle
    /\ localStorage \in {SessionStorage, EmptyStorage}

\* the effect of the mount
Mount ==
    /\ authLoading
    /\ authUser' = IF localStorage["accessToken"] # <<>> THEN getUser(localStorage)
                   ELSE authUser
    /\ authLoading' = FALSE
    /\ UNCHANGED <<localStorage, pending, authEnded>>

\* the page is loaded again: the provider starts over, the storage stays
Reload ==
    /\ ~authLoading
    /\ authUser' = Null
    /\ authLoading' = TRUE
    /\ pending' = <<>>
    /\ authEnded' = "none"
    /\ UNCHANGED localStorage

\* login(code, provider) up to its await
Login ==
    /\ ~authLoading
    /\ Len(pending) < MaxPending
    /\ \E provider \in Providers : pending' = Append(pending, Call("login", provider))
    /\ UNCHANGED <<localStorage, authUser, authLoading, authEnded>>

\* login after its await: the response is stored, or the error is thrown on
LoginEnds ==
    \E i \in 1..Len(pending), ok \in BOOLEAN :
        /\ pending[i].op = "login"
        /\ pending' = without(pending, i)
        /\ IF ok
           THEN /\ localStorage' = storeLogin(localStorage, pending[i].provider)
                /\ authUser' = ResponseUser[pending[i].provider]
                /\ authEnded' = "login"
           ELSE /\ authEnded' = "login failed"
                /\ UNCHANGED <<localStorage, authUser>>
        /\ UNCHANGED authLoading

\* logout() up to its await
Logout ==
    /\ ~authLoading
    /\ Len(pending) < MaxPending
    /\ pending' = Append(pending, Call("logout", ""))
    /\ UNCHANGED <<localStorage, authUser, authLoading, authEnded>>

\* logout after its await: authService.logout never throws, the finally
\* block runs whatever the server answered
LogoutEnds ==
    \E i \in 1..Len(pending), ok \in BOOLEAN :
        /\ pending[i].op = "logout"
        /\ pending' = without(pending, i)
        /\ localStorage' = clearTokens(localStorage)
        /\ authUser' = Null
        /\ authEnded' = "logout"
        /\ UNCHANGED authLoading

\* refreshSession() up to its await, or to its end when no refresh token is stored
RefreshSession ==
    /\ ~authLoading
    /\ Len(pending) < MaxPending
    /\ IF localStorage["refreshToken"] = <<>>
       THEN /\ localStorage' = clearTokens(localStorage)
            /\ authUser' = Null
            /\ authEnded' = "refreshSession failed"
            /\ UNCHANGED pending
       ELSE /\ pending' = Append(pending, Call("refreshSession", ""))
            /\ UNCHANGED <<localStorage, authUser, authEnded>>
    /\ UNCHANGED authLoading

\* refreshSession after its await
RefreshSessionEnds ==
    \E i \in 1..Len(pending), ok \in BOOLEAN :
        /\ pending[i].op = "refreshSession"
        /\ pending' = without(pending, i)
        /\ IF ok
           THEN /\ localStorage' = [localStorage EXCEPT !["accessToken"] = item("at1")]
                /\ authEnded' = "refreshSession"
                /\ UNCHANGED authUser
           ELSE /\ localStorage' = clearTokens(localStorage)
                /\ authUser' = Null
                /\ authEnded' = "refreshSession failed"
        /\ UNCHANGED authLoading

ProviderNext ==
    \/ Mount /\ UNCHANGED <<coreVars, analyzeVars, authVars, storeVars, serverVars, dashVars, icVars>>
    \/ Reload /\ UNCHANGED <<coreVars, analyzeVars, authVars, storeVars, serverVars, dashVars, icVars>>
    \/ Login /\ UNCHANGED <<coreVars, analyzeVars, authVars, storeVars, serverVars, dashVars, icVars>>
    \/ LoginEnds /\ UNCHANGED <<coreVars, analyzeVars, authVars, storeVars, serverVars, dashVars, icVars>>
    \/ Logout /\ UNCHANGED <<coreVars, analyzeVars, authVars, storeVars, serverVars, dashVars, icVars>>
    \/ LogoutEnds /\ UNCHANGED <<coreVars, analyzeVars, authVars, storeVars, serverVars, dashVars, icVars>>
    \/ RefreshSession /\ UNCHANGED <<coreVars, analyzeVars, authVars, storeVars, serverVars, dashVars, icVars>>
    \/ RefreshSessionEnds /\ UNCHANGED <<coreVars, analyzeVars, authVars, storeVars, serverVars, dashVars, icVars>>

SpecProvider == ProviderInit /\ [][ProviderNext]_vars

\* C28: in every state of the AuthProvider a user that is not null comes
\* with a stored access token, and while logout or a failed refreshSession
\* is the call that ended last, user is null and accessToken, refreshToken
\* and user are removed from the storage.
C28_AuthenticatedHasToken ==
    /\ authUser # Null => localStorage["accessToken"] # <<>>
    /\ authEnded \in {"logout", "refreshSession failed"} =>
           /\ authUser = Null
           /\ localStorage["accessToken"] = <<>>
           /\ localStorage["refreshToken"] = <<>>
           /\ localStorage["user"] = <<>>

\* a logout has ended while a login is still awaited
C28_Witness ==
    /\ authEnded = "logout"
    /\ \E i \in 1..Len(pending) : pending[i].op = "login"
    /\ authUser = Null
    /\ localStorage = EmptyStorage

\* ---------------------------------------------------------------------
\* Specification of the users table under POST /api/auth/login
\* ---------------------------------------------------------------------

\* handlers of POST /login awaiting exchangeOAuthCode at once
MaxLogins == 2

\* the columns of the users table
UserColumns == {"id", "oauth_id", "email", "name", "avatar_url", "created_at", "updated_at"}

\* a row of the users table
UserRow(id, oauthId, email) == [id |-> id, oauth_id |-> oauthId, email |-> email]

\* the identity of a user at a provider
Identity(oauthId, email) == [oauthId |-> oauthId, email |-> email]

\* mockUsers of exchangeOAuthCode
mockUsers ==
    [google |-> Identity("google_123456", "user@gmail.com"),
     github |-> Identity("github_123456", "user@github.com")]

\* exchangeOAuthCode(code, provider): mockUsers[provider] || mockUsers.google
oauthUserInfo(code, provider) ==
    IF provider \in DOMAIN mockUsers THEN mockUsers[provider] ELSE mockUsers.google

\* ids uuidv4() may give
NewIds == {"n1", "n2", "n3"}

\* what the database file may hold when the server starts: nothing, a
\* user of an earlier login, or a user with the email of the Google
\* identity under another OAuth id
StoredTables ==
    {<<>>,
     <<UserRow("n0", "google_123456", "user@gmail.com")>>,
     <<UserRow("n0", "google_000001", "user@gmail.com")>>,
     <<UserRow("n0", "github_000001", "user@gmail.com"),
       UserRow("n9", "github_123456", "user@github.com")>>}

\* stmt.get: the first row of the table with the value in the column, 0 when none
firstWith(table, column, value) ==
    IF \E i \in 1..Len(table) : table[i][column] = value
    THEN CHOOSE i \in 1..Len(table) :
             /\ table[i][column] = value
             /\ \A j \in 1..(i - 1) : table[j][column] # value
    ELSE 0

\* User.findByOAuthId(oauthId)
findByOAuthId(table, oauthId) == firstWith(table, "oauth_id", oauthId)

\* User.findByEmail(email)
findByEmail(table, email) == firstWith(table, "email", email)

\* User.create({oauthId, email, ...}) with the id uuidv4() gave
createUser(table, id, identity) == Append(table, UserRow(id, identity.oauthId, identity.email))

\* User.update(id, {[key]: value}): UPDATE users SET <key> = ?, updated_at = ?
\* WHERE id = ?; preparing the statement throws when key is no column
updateUser(table, id, key, value) ==
    IF key \notin UserColumns
    THEN [thrown |-> TRUE, table |-> table]
    ELSE [thrown |-> FALSE,
          table |-> [i \in 1..Len(table) |->
                        IF table[i].id = id /\ key \in DOMAIN table[i]
                        THEN [table[i] EXCEPT ![key] = value] ELSE table[i]]]

\* the key of the updates object the handler passes to User.update
LinkKey == "oauthId"

LoginInit ==
    /\ CoreIdle
    /\ AnalyzeIdle
    /\ AuthIdle
    /\ StoreIdle
    /\ env = EnvSet
    /\ rStats = NoStats
    /\ ClientIdle
    /\ usersTable \in StoredTables
    /\ logins = <<>>
    /\ lLast = NoLoginExchange

\* a validated POST /login up to its await of exchangeOAuthCode
LoginStarts ==
    /\ Len(logins) < MaxLogins
    /\ \E provider \in {"google", "github"} :
           logins' = Append(logins, oauthUserInfo("oauth-code", provider))
    /\ UNCHANGED <<usersTable, lLast>>

\* the handler after its await: find or create, tokens, answer
LoginFinishes ==
    \E i \in 1..Len(logins), newId \in NewIds :
      LET identity == logins[i]
          found == findByOAuthId(usersTable, identity.oauthId)
          existing == findByEmail(usersTable, identity.email)
          linked == updateUser(usersTable, usersTable[existing].id, LinkKey, identity.oauthId)
      IN /\ \A k \in 1..Len(usersTable) : usersTable[k].id # newId
         /\ logins' = without(logins, i)
         /\ IF found # 0
            THEN /\ lLast' = LoginExchange(identity, "found", 200, usersTable[found].id,
                                           generateTokens(usersTable[found].id, env))
                 /\ UNCHANGED usersTable
            ELSE IF existing # 0
            THEN IF linked.thrown
                 THEN /\ lLast' = LoginExchange(identity, "linked", 500, "", {})
                      /\ UNCHANGED usersTable
                 ELSE /\ usersTable' = linked.table
                      /\ lLast' = LoginExchange(identity, "linked", 200,
                                                usersTable[existing].id,
                                                generateTokens(usersTable[existing].id, env))
            ELSE /\ usersTable' = createUser(usersTable, newId, identity)
                 /\ lLast' = LoginExchange(identity, "created", 200, newId,
                                           generateTokens(newId, env))

LoginNext ==
    \/ LoginStarts /\ UNCHANGED <<coreVars, analyzeVars, authVars, storeVars, env, rStats, clientVars>>
    \/ LoginFinishes /\ UNCHANGED <<coreVars, analyzeVars, authVars, storeVars, env, rStats, clientVars>>

SpecLogin == LoginInit /\ [][LoginNext]_vars

\* the rows of a table with the OAuth id, with the email
WithOAuthId(table, oauthId) == {k \in 1..Len(table) : table[k].oauth_id = oauthId}
WithEmail(table, email) == {k \in 1..Len(table) : table[k].email = email}

====
